---- MODULE Spec2Model ----
(***************************************************************************)
(* Coordination core of the script-generator service:                      *)
(*   - the broker gateway's consume loop                                    *)
(*     (app/providers/message_broker.py, consume_data_collected), and       *)
(*   - the WebSocket connection registry                                    *)
(*     (app/utils/websocket_manager.py, ConnectionManager), and             *)
(*   - the in-memory job tracker and its background tasks                   *)
(*     (app/routes/scripting_routes.py, generation_tasks).                  *)
(* Each component is explored under its own specification: SpecConsume      *)
(* drives the consume loop with an arbitrary callback, SpecRegistry drives  *)
(* the ConnectionManager with arbitrary interleavings of its callers        *)
(* (SpecBroadcast adds the history of each send_to_collection call),        *)
(* SpecJobs drives the job routes, the background tasks and the clock       *)
(* (SpecJobsFair adds the scheduling's fairness, SpecJobIds lets uuid4      *)
(* repeat a value), SpecPipeline drives the broker handler                  *)
(* (app/__init__.py, handle_data_collected) with the ConnectionManager it   *)
(* broadcasts through, and SpecGateway drives the gateway's connect,        *)
(* publish_script_generated and close with its consumer task.               *)
(* SpecJobsCancel adds the cancellation of a background task,               *)
(* SpecGatewayReconnect a caller that calls connect() repeatedly, and       *)
(* SpecSessions drives the session handlers of /ws                          *)
(* (app/routes/websocket_routes.py) and /direct-ws (main.py) together with  *)
(* the broadcasts to their sessions.                                        *)
(***************************************************************************)
EXTENDS Integers, Sequences, FiniteSets, TLC

(***************************************************************************)
(* Bounds                                                                   *)
(***************************************************************************)
NumEvents == 3          \* inbound events the broker delivers, in this order
NumKeys == 2            \* distinct collection ids in use

Events == 1..NumEvents
\* Two WebSocket objects: enough for a group with an earlier and a later
\* member, for a session in two groups and for a member leaving or joining
\* while a broadcast is suspended.
Sessions == {"ws1", "ws2"}
Keys == {10 + i : i \in 1..NumKeys}        \* the collection ids 11, 12, ...
NoKey == 0              \* collection_id is None (or the empty string): falsy
NoEvent == 0
NoSession == "none"

(***************************************************************************)
(* Sequence helpers (Python list semantics)                                 *)
(***************************************************************************)
\* x in list
Contains(list, x) == \E i \in 1..Len(list) : list[i] = x

\* list.remove(x): removes the FIRST occurrence only (the caller has checked
\* that x is in the list)
ListRemove(list, x) ==
    LET i == CHOOSE j \in 1..Len(list) :
                 list[j] = x /\ \A k \in 1..(j-1) : list[k] # x
    IN  [n \in 1..(Len(list)-1) |-> IF n < i THEN list[n] ELSE list[n+1]]

\* number of positions of list holding x
Count(list, x) == Cardinality({i \in 1..Len(list) : list[i] = x})

Min(a, b) == IF a <= b THEN a ELSE b
Max(a, b) == IF a >= b THEN a ELSE b

(***************************************************************************)
(* State                                                                    *)
(***************************************************************************)
VARIABLES
    \* ---- broker gateway / consume loop ----
    body,             \* [Events -> BodyKinds]: what message.body holds
    delivered,        \* number of messages queue_iter has yielded so far
    consume_pc,       \* "iter": awaiting queue_iter; "callback": awaiting
                      \* callback(data, headers); "closed": the coroutine ended
    message,          \* the message inside `async with message.process()`
    callback_calls,   \* [Events -> Nat]: times callback was invoked
    outcome,          \* [Events -> ...]: how the processing of the event ended
    ack_calls,        \* [Events -> Nat]: message.ack() calls
    reject_calls,     \* [Events -> Nat]: message.reject() calls
    trace,            \* history of the loop: sequence of <<what, event>>
    \* ---- ConnectionManager ----
    active_connections,      \* List[WebSocket], as a bag
    collection_connections,  \* Dict[str, List[WebSocket]]
    client_state,            \* [Sessions -> WebSocketState]
    bc,                      \* the send_to_collection call in flight: its
                             \* locals, and the number of send_json calls
                             \* that completed in it (accepted)
    subscribed,              \* history: [Keys -> SUBSET Sessions] subscribed to
                             \* the key and not unsubscribed since
    last_op,                 \* history: what happened last on the
                             \* ConnectionManager, with what a returned
                             \* send_to_collection handed back
    bh,                      \* history of the send_to_collection call in
                             \* flight (or of the last one): the group as it
                             \* was when the call started, the connections
                             \* its loop visited, the send_json calls it made
    \* ---- job tracker (routes/scripting_routes.py) ----
    issued,                  \* number of POST /scripts requests handled
    script_id,               \* [Requests -> id]: the uuid4 of each request
    generation_tasks,        \* the module's dict: id -> {"status", "progress"}
    task_pc,                 \* [Requests -> ...]: where the request's
                             \* generate_script_in_background task stands
    repository,              \* ids the scripts collection holds a document for
    elapsed,                 \* [Requests -> seconds] since the task wrote
                             \* "completed" and entered asyncio.sleep(300),
                             \* or since it wrote "error"
    response,                \* history: the last HTTP response of the routes
    transitions,             \* history: [id -> sequence of the records written
                             \* under the id], oldest first
    \* ---- handle_data_collected (app/__init__.py) ----
    hd,                      \* the call in flight: where it stands, its
                             \* collection_id and what insert_one returned;
                             \* and how the last call ended
    notified,                \* history of the call in flight (or of the last
                             \* one): the sessions subscribed to its
                             \* collection_id since it was entered, and the
                             \* send_json calls each session accepted
    \* ---- ScriptGeneratorMessageBroker: connect, publish, close ----
    gw,                      \* self.connection, self.channel, self.queue and
                             \* how the last call on the gateway ended
    published,               \* history: [destination -> messages the broker
                             \* accepted for it]
    \* ---- the session handlers: /ws (routes/websocket_routes.py) and ----
    \* ---- /direct-ws (main.py)                                       ----
    sh,                      \* [Sessions -> the websocket_endpoint call that
                             \* serves the session]: its route, the await it
                             \* stands at, its collection_id, the frame it
                             \* answers, the frame whose send_json is in
                             \* flight, whether close() was called on the
                             \* session, and how the call ended
    slot,                    \* main.py's dict active_connections:
                             \* [Keys -> the session stored, or NoSession]
    first_frame              \* history: [Sessions -> type of the first frame
                             \* a send_json call put on the session]

bvars == <<body, delivered, consume_pc, message, callback_calls, outcome,
           ack_calls, reject_calls, trace>>
rvars == <<active_connections, collection_connections, client_state, bc,
           subscribed, last_op>>
jvars == <<issued, script_id, generation_tasks, task_pc, repository, elapsed,
           response, transitions>>
pvars == <<hd, notified>>
gvars == <<gw, published>>
svars == <<sh, slot, first_frame>>
vars == <<bvars, rvars, bh, jvars, pvars, gvars, svars>>

(***************************************************************************)
(* Broker gateway: consume_data_collected                                   *)
(***************************************************************************)
\* message.body as the loop sees it:
\*   invalid_bytes    message.body.decode() raises UnicodeDecodeError
\*   invalid_json     json.loads(data_str) raises json.JSONDecodeError
\*   json_non_object  valid JSON that is no dict (a list, a number, ...):
\*                    data.get(...) raises AttributeError
\*   json_object      a dict: the callback is called
BodyKinds == {"invalid_bytes", "invalid_json", "json_non_object", "json_object"}

Undecodable(e) == body[e] \in {"invalid_bytes", "invalid_json"}

ConsumeInit ==
    /\ delivered = 0
    /\ consume_pc = "iter"
    /\ message = NoEvent
    /\ callback_calls = [e \in Events |-> 0]
    /\ outcome = [e \in Events |-> "none"]
    /\ ack_calls = [e \in Events |-> 0]
    /\ reject_calls = [e \in Events |-> 0]
    /\ trace = <<>>

\* `async with message.process()` is left: aio_pika acks the message when the
\* block ends without an exception and rejects it (requeue=False) when an
\* exception leaves the block.
\* `why` is what ended the block's body (for the history).
ProcessExit(e, why, escaped) ==
    IF escaped
    THEN /\ reject_calls' = [reject_calls EXCEPT ![e] = @ + 1]
         /\ trace' = trace \o <<<<why, e>>, <<"reject", e>>>>
         /\ UNCHANGED ack_calls
    ELSE /\ ack_calls' = [ack_calls EXCEPT ![e] = @ + 1]
         /\ trace' = trace \o <<<<why, e>>, <<"ack", e>>>>
         /\ UNCHANGED reject_calls

\* Faulty variant: no except clause around the decoding: the exception leaves the
\* process() block and the iterator, and ends the loop
ReceiveAndDrop_Propagates ==
    /\ consume_pc = "iter"
    /\ delivered < NumEvents
    /\ LET e == delivered + 1 IN
        /\ body[e] # "json_object"
        /\ delivered' = e
        /\ outcome' = [outcome EXCEPT ![e] = "dropped"]
        /\ ProcessExit(e, "drop", TRUE)
    /\ consume_pc' = "closed"
    /\ UNCHANGED <<body, message, callback_calls>>
    /\ UNCHANGED <<rvars, bh, jvars, pvars, gvars, svars>>

\* queue_iter yields the next message and its body does not reach the
\* callback: decode()/json.loads()/data.get() raises, the exception is caught
\* inside the process() block (lines 113-116) and the block ends normally.
ReceiveAndDrop ==
    /\ consume_pc = "iter"
    /\ delivered < NumEvents
    /\ LET e == delivered + 1 IN
        /\ body[e] # "json_object"
        /\ delivered' = e
        /\ outcome' = [outcome EXCEPT ![e] = "dropped"]
        /\ ProcessExit(e, "drop", FALSE)
    /\ UNCHANGED <<body, consume_pc, message, callback_calls>>
    /\ UNCHANGED <<rvars, bh, jvars, pvars, gvars, svars>>

\* Faulty variant: the message is acknowledged as soon as it is received
ReceiveAndCall_AckOnReceipt ==
    /\ consume_pc = "iter"
    /\ delivered < NumEvents
    /\ LET e == delivered + 1 IN
        /\ body[e] = "json_object"
        /\ delivered' = e
        /\ message' = e
        /\ callback_calls' = [callback_calls EXCEPT ![e] = @ + 1]
        /\ ack_calls' = [ack_calls EXCEPT ![e] = @ + 1]
        /\ trace' = trace \o <<<<"ack", e>>, <<"call", e>>>>
    /\ consume_pc' = "callback"
    /\ UNCHANGED <<body, outcome, reject_calls>>
    /\ UNCHANGED <<rvars, bh, jvars, pvars, gvars, svars>>

\* Faulty variant: the callback is started as a task of its own and not awaited: the
\* process() block ends at once and the loop goes on to the next message
ReceiveAndCall_NotAwaited ==
    /\ consume_pc = "iter"
    /\ delivered < NumEvents
    /\ LET e == delivered + 1 IN
        /\ body[e] = "json_object"
        /\ delivered' = e
        /\ callback_calls' = [callback_calls EXCEPT ![e] = @ + 1]
        /\ ProcessExit(e, "call", FALSE)
    /\ UNCHANGED <<body, consume_pc, message, outcome>>
    /\ UNCHANGED <<rvars, bh, jvars, pvars, gvars, svars>>

\* queue_iter yields the next message, the body decodes to a dict and the
\* loop suspends in `await callback(data, headers)`.
ReceiveAndCall ==
    /\ consume_pc = "iter"
    /\ delivered < NumEvents
    /\ LET e == delivered + 1 IN
        /\ body[e] = "json_object"
        /\ delivered' = e
        /\ message' = e
        /\ callback_calls' = [callback_calls EXCEPT ![e] = @ + 1]
        /\ trace' = Append(trace, <<"call", e>>)
    /\ consume_pc' = "callback"
    /\ UNCHANGED <<body, outcome, ack_calls, reject_calls>>
    /\ UNCHANGED <<rvars, bh, jvars, pvars, gvars, svars>>

\* the callback returns: the try block and then the process() block end.
CallbackReturns ==
    /\ consume_pc = "callback"
    /\ outcome' = [outcome EXCEPT ![message] = "returned"]
    /\ ProcessExit(message, "return", FALSE)
    /\ consume_pc' = "iter"
    /\ message' = NoEvent
    /\ UNCHANGED <<body, delivered, callback_calls>>
    /\ UNCHANGED <<rvars, bh, jvars, pvars, gvars, svars>>

\* the callback raises an Exception: `except Exception` (line 115) logs it
\* inside the process() block, so the block still ends normally.
CallbackRaises ==
    /\ consume_pc = "callback"
    /\ outcome' = [outcome EXCEPT ![message] = "raised"]
    /\ ProcessExit(message, "raise", FALSE)
    /\ consume_pc' = "iter"
    /\ message' = NoEvent
    /\ UNCHANGED <<body, delivered, callback_calls>>
    /\ UNCHANGED <<rvars, bh, jvars, pvars, gvars, svars>>

\* shutdown_event cancels the consumer task. CancelledError is no Exception:
\* it passes every `except Exception`, leaves the process() block (the message
\* is rejected) and ends the coroutine.
CancelConsumer ==
    /\ consume_pc # "closed"
    /\ IF consume_pc = "callback"
       THEN /\ outcome' = [outcome EXCEPT ![message] = "cancelled"]
            /\ ProcessExit(message, "cancel", TRUE)
       ELSE UNCHANGED <<outcome, ack_calls, reject_calls, trace>>
    /\ consume_pc' = "closed"
    /\ message' = NoEvent
    /\ UNCHANGED <<body, delivered, callback_calls>>
    /\ UNCHANGED <<rvars, bh, jvars, pvars, gvars, svars>>

NextConsume ==
    \/ ReceiveAndDrop
    \/ ReceiveAndCall
    \/ CallbackReturns
    \/ CallbackRaises
    \/ CancelConsumer

(***************************************************************************)
(* ConnectionManager                                                        *)
(***************************************************************************)
OptKeys == Keys \cup {NoKey}

\* {}: the dict without keys
EmptyDict == [k \in {} |-> <<>>]

\* active_connections is a Python list of which the code uses `in`, append,
\* remove and len only: its order is never observed, so it is kept as the bag
\* of its elements, [Sessions -> Nat].
InActive(active, ws) == active[ws] > 0
ActiveAppend(active, ws) == [active EXCEPT ![ws] = @ + 1]
ActiveRemove(active, ws) == [active EXCEPT ![ws] = @ - 1]

Idle == [pc |-> "idle", key |-> NoKey, index |-> 0, attached |-> FALSE,
         connection |-> NoSession, disconnected |-> {},
         successful_sends |-> 0, accepted |-> 0]

\* history records: a connect/disconnect/peer close/send_json that happened
\* last, or the send_to_collection call that returned last with the value it
\* handed back, the successful_sends it logged, the number of send_json calls
\* that completed in it and whether it found its group
Did(op, known, error) ==
    [op |-> op, known |-> known, error |-> error, value |-> <<>>,
     successful_sends |-> 0, accepted |-> 0]
Returned(value, successful_sends, accepted, existed) ==
    [op |-> "send_to_collection", known |-> existed, error |-> FALSE,
     value |-> value, successful_sends |-> successful_sends,
     accepted |-> accepted]

\* __init__, with every WebSocket already accepted by its route
RegistryInit ==
    /\ active_connections = [s \in Sessions |-> 0]
    /\ collection_connections = EmptyDict
    /\ client_state = [s \in Sessions |-> "CONNECTED"]
    /\ bc = Idle
    /\ subscribed = [k \in Keys |-> {}]
    /\ last_op = Did("init", FALSE, FALSE)

\* connect(websocket, collection_id) on the two containers
ConnectActive(active, ws) ==
    IF ~InActive(active, ws) THEN ActiveAppend(active, ws) ELSE active

\* Faulty variant: no `not in` test before the append to the group's list
ConnectCollections_NoMembershipTest(coll, ws, collection_id) ==
    IF collection_id # NoKey
    THEN [k \in DOMAIN coll \cup {collection_id} |->
             IF k = collection_id
             THEN Append(IF k \in DOMAIN coll THEN coll[k] ELSE <<>>, ws)
             ELSE coll[k]]
    ELSE coll

ConnectCollections(coll, ws, collection_id) ==
    IF collection_id # NoKey
    THEN LET created == IF collection_id \notin DOMAIN coll
                        THEN [k \in DOMAIN coll \cup {collection_id} |->
                                 IF k = collection_id THEN <<>> ELSE coll[k]]
                        ELSE coll
         IN  IF ~Contains(created[collection_id], ws)
             THEN [created EXCEPT ![collection_id] = Append(@, ws)]
             ELSE created
    ELSE coll

\* the `in` tests that guard the two list.remove calls (lines 53 and 59)
ActiveGuard(active, ws) == InActive(active, ws)
GroupGuard(connections, ws) == Contains(connections, ws)

\* disconnect(websocket) on the two containers
DisconnectActive(active, ws) ==
    IF ActiveGuard(active, ws) /\ InActive(active, ws)
    THEN ActiveRemove(active, ws)
    ELSE active

\* Faulty variant: only the list of the collection_id argument is cleaned
DisconnectCollections_ByArgument(coll, ws, collection_id) ==
    LET removes(k) == k = collection_id /\ Contains(coll[k], ws)
        emptied(k) == removes(k) /\ Len(ListRemove(coll[k], ws)) = 0
    IN  [k \in {c \in DOMAIN coll : ~emptied(c)} |->
            IF removes(k) THEN ListRemove(coll[k], ws) ELSE coll[k]]

\* Faulty variant: a list that became empty stays in the dict
DisconnectCollections_KeepsEmptyList(coll, ws, collection_id) ==
    [k \in DOMAIN coll |->
        IF Contains(coll[k], ws) THEN ListRemove(coll[k], ws) ELSE coll[k]]

\* Faulty variant: the loop over the dict stops at the first list that held ws
DisconnectCollections_FirstGroupOnly(coll, ws, collection_id) ==
    LET holding == {k \in DOMAIN coll : Contains(coll[k], ws)}
        removes(k) == k \in holding /\ \A k2 \in holding : k <= k2
        emptied(k) == removes(k) /\ Len(ListRemove(coll[k], ws)) = 0
    IN  [k \in {c \in DOMAIN coll : ~emptied(c)} |->
            IF removes(k) THEN ListRemove(coll[k], ws) ELSE coll[k]]

\* (collection_id is the argument disconnect never reads)
DisconnectCollections(coll, ws, collection_id) ==
    LET removes(k) == GroupGuard(coll[k], ws) /\ Contains(coll[k], ws)
        emptied(k) == removes(k) /\ Len(ListRemove(coll[k], ws)) = 0
    IN  [k \in {c \in DOMAIN coll : ~emptied(c)} |->
            IF removes(k) THEN ListRemove(coll[k], ws) ELSE coll[k]]

\* the ValueError list.remove raises when it is reached for an absent element
DisconnectError(active, coll, ws) ==
    \/ ActiveGuard(active, ws) /\ ~InActive(active, ws)
    \/ \E k \in DOMAIN coll : GroupGuard(coll[k], ws) /\ ~Contains(coll[k], ws)

\* the list object send_to_collection iterates is the dict's list for its key
\* until disconnect deletes that entry: from then on the iterator holds an
\* empty list no one else refers to.
BcAfterDisconnect(b, coll2) ==
    IF b.pc = "send" /\ b.attached /\ b.key \notin DOMAIN coll2
    THEN [b EXCEPT !.attached = FALSE]
    ELSE b

Connect(ws, collection_id) ==
    /\ active_connections' = ConnectActive(active_connections, ws)
    /\ collection_connections' =
           ConnectCollections(collection_connections, ws, collection_id)
    /\ subscribed' = [k \in Keys |-> IF k = collection_id
                                     THEN subscribed[k] \cup {ws}
                                     ELSE subscribed[k]]
    /\ last_op' = Did("connect",
                       /\ InActive(active_connections, ws)
                       /\ \/ collection_id = NoKey
                          \/ /\ collection_id \in DOMAIN collection_connections
                             /\ Contains(collection_connections[collection_id], ws),
                       FALSE)
    /\ UNCHANGED <<client_state, bc>>
    /\ UNCHANGED <<bvars, jvars, gvars>>

\* disconnect(websocket, collection_id) on the manager's state; the
\* collection_id argument is never read
Unregister(ws, collection_id) ==
    /\ active_connections' = DisconnectActive(active_connections, ws)
    /\ collection_connections' =
           DisconnectCollections(collection_connections, ws, collection_id)
    /\ bc' = BcAfterDisconnect(bc, collection_connections')
    /\ subscribed' = [k \in Keys |-> subscribed[k] \ {ws}]
    /\ last_op' = Did("disconnect",
                       \/ InActive(active_connections, ws)
                       \/ \E k \in DOMAIN collection_connections :
                              Contains(collection_connections[k], ws),
                       DisconnectError(active_connections,
                                       collection_connections, ws))

Disconnect(ws, collection_id) ==
    /\ Unregister(ws, collection_id)
    /\ UNCHANGED client_state
    /\ UNCHANGED <<bvars, jvars, gvars>>

\* the peer of a registered session goes away: the route's receive() sees the
\* disconnect message and starlette moves client_state to DISCONNECTED
ClientCloses(ws) ==
    /\ client_state[ws] = "CONNECTED"
    /\ InActive(active_connections, ws)
    /\ client_state' = [client_state EXCEPT ![ws] = "DISCONNECTED"]
    /\ last_op' = Did("peer_close", TRUE, FALSE)
    /\ UNCHANGED <<active_connections, collection_connections, bc, subscribed>>
    /\ UNCHANGED <<bvars, jvars, gvars>>

\* The for loop of send_to_collection from Python index `index` on, up to the
\* next `await connection.send_json(message)` or to the end of the list.
\* Connections that are not CONNECTED are collected without suspending.
RECURSIVE Advance(_, _, _)
Advance(list, index, disconnected) ==
    IF index >= Len(list)
    THEN [done |-> TRUE, index |-> index, connection |-> NoSession,
          disconnected |-> disconnected]
    ELSE LET connection == list[index + 1] IN
         IF client_state[connection] = "CONNECTED"
         THEN [done |-> FALSE, index |-> index + 1, connection |-> connection,
               disconnected |-> disconnected]
         ELSE Advance(list, index + 1, disconnected \cup {connection})

\* `for connection in disconnected: self.disconnect(connection)`.
\* `disconnected` is a list that is only appended to and then walked to call
\* disconnect on each element; disconnect calls commute and a repeated one
\* changes nothing, so the list is kept as the set of its elements.
RECURSIVE CleanUp(_, _)
CleanUp(reg, disconnected) ==
    IF disconnected = {}
    THEN reg
    ELSE LET connection == CHOOSE c \in disconnected : TRUE IN
         CleanUp([active |-> DisconnectActive(reg.active, connection),
                  coll |-> DisconnectCollections(reg.coll, connection, NoKey)],
                 disconnected \ {connection})

\* what send_to_collection hands back: neither `return` carries a value, so
\* it is None in every case (<<"int", n>> would be the integer n)
ReturnValue(successful_sends) == <<"None">>

\* the loop went on from b (index, disconnected, successful_sends set) over
\* `list`: either it suspends in the next send_json or it ends, cleans up and
\* returns. `raised` tells whether a send_json that raised led here.
Continue(b, list, raised) ==
    LET adv == Advance(list, b.index, b.disconnected) IN
    IF adv.done
    THEN LET reg == CleanUp([active |-> active_connections,
                             coll |-> collection_connections],
                            adv.disconnected)
         IN  /\ active_connections' = reg.active
             /\ collection_connections' = reg.coll
             /\ subscribed' = [k \in Keys |->
                    subscribed[k] \ adv.disconnected]
             /\ last_op' = Returned(ReturnValue(b.successful_sends),
                                    b.successful_sends, b.accepted, TRUE)
             /\ bc' = Idle
    ELSE /\ bc' = [b EXCEPT !.pc = "send", !.index = adv.index,
                            !.connection = adv.connection,
                            !.disconnected = adv.disconnected]
         /\ last_op' = Did("send_json", TRUE, raised)
         /\ UNCHANGED <<active_connections, collection_connections, subscribed>>

\* send_to_collection(collection_id, message) is called, by the one task
\* that broadcasts (the broker handler)
SendToCollection(collection_id) ==
    /\ bc.pc = "idle"
    /\ IF collection_id \notin DOMAIN collection_connections
       THEN /\ last_op' = Returned(ReturnValue(0), 0, 0, FALSE)
            /\ bc' = Idle
            /\ UNCHANGED <<active_connections, collection_connections,
                           subscribed>>
       ELSE Continue([Idle EXCEPT !.key = collection_id, !.attached = TRUE],
                     collection_connections[collection_id], FALSE)
    /\ UNCHANGED client_state
    /\ UNCHANGED <<bvars, jvars, gvars>>

\* the list the suspended loop goes on with
IteratedList == IF bc.attached THEN collection_connections[bc.key] ELSE <<>>

\* `await connection.send_json(message)` completes
SendJsonReturns ==
    /\ bc.pc = "send"
    /\ Continue([bc EXCEPT !.successful_sends = @ + 1,
                           !.accepted = @ + 1],
                IteratedList, FALSE)
    /\ UNCHANGED client_state
    /\ UNCHANGED <<bvars, jvars, gvars>>

\* Faulty variant: successful_sends is incremented before the send is awaited
SendJsonRaises_Counted ==
    /\ bc.pc = "send"
    /\ Continue([bc EXCEPT !.disconnected = @ \cup {bc.connection},
                           !.successful_sends = @ + 1],
                IteratedList, TRUE)
    /\ UNCHANGED client_state
    /\ UNCHANGED <<bvars, jvars, gvars>>

\* Faulty variant: the except clause logs the error and does not collect the
\* connection
SendJsonRaises_NotCollected ==
    /\ bc.pc = "send"
    /\ Continue(bc, IteratedList, TRUE)
    /\ UNCHANGED client_state
    /\ UNCHANGED <<bvars, jvars, gvars>>

\* Faulty variant: the try statement is around the for loop: the exception
\* ends the loop, the connection is collected and the clean-up runs
SendJsonRaises_Aborts ==
    /\ bc.pc = "send"
    /\ Continue([bc EXCEPT !.disconnected = @ \cup {bc.connection},
                           !.index = Max(@, Len(IteratedList))],
                IteratedList, TRUE)
    /\ UNCHANGED client_state
    /\ UNCHANGED <<bvars, jvars, gvars>>

\* Faulty variant: the except clause calls self.disconnect(connection) at
\* once, inside the loop, and the loop goes on over the list disconnect
\* has changed
SendJsonRaises_RemovesAtOnce ==
    /\ bc.pc = "send"
    /\ LET active2 == DisconnectActive(active_connections, bc.connection)
           coll2 == DisconnectCollections(collection_connections,
                                          bc.connection, NoKey)
           list == IF bc.attached /\ bc.key \in DOMAIN coll2
                   THEN coll2[bc.key] ELSE <<>>
           adv == Advance(list, bc.index, bc.disconnected)
       IN  IF adv.done
           THEN LET reg == CleanUp([active |-> active2, coll |-> coll2],
                                   adv.disconnected)
                IN  /\ active_connections' = reg.active
                    /\ collection_connections' = reg.coll
                    /\ subscribed' = [k \in Keys |->
                           subscribed[k] \ (adv.disconnected \cup {bc.connection})]
                    /\ last_op' = Returned(ReturnValue(bc.successful_sends),
                                           bc.successful_sends, bc.accepted,
                                           TRUE)
                    /\ bc' = Idle
           ELSE /\ active_connections' = active2
                /\ collection_connections' = coll2
                /\ subscribed' = [k \in Keys |-> subscribed[k] \ {bc.connection}]
                /\ bc' = [bc EXCEPT !.index = adv.index,
                                    !.connection = adv.connection,
                                    !.disconnected = adv.disconnected,
                                    !.attached = bc.key \in DOMAIN coll2]
                /\ last_op' = Did("send_json", TRUE, TRUE)
    /\ UNCHANGED client_state
    /\ UNCHANGED <<bvars, jvars, gvars>>

\* `await connection.send_json(message)` raises: `except Exception` collects
\* the connection
SendJsonRaises ==
    /\ bc.pc = "send"
    /\ Continue([bc EXCEPT !.disconnected = @ \cup {bc.connection}],
                IteratedList, TRUE)
    /\ UNCHANGED client_state
    /\ UNCHANGED <<bvars, jvars, gvars>>

NextRegistry ==
    \/ \E ws \in Sessions, k \in OptKeys : Connect(ws, k) /\ UNCHANGED <<bh, pvars, svars>>
    \/ \E ws \in Sessions : Disconnect(ws, NoKey) /\ UNCHANGED <<bh, pvars, svars>>
    \/ \E ws \in Sessions : ClientCloses(ws) /\ UNCHANGED <<bh, pvars, svars>>
    \/ \E k \in Keys : SendToCollection(k) /\ UNCHANGED <<bh, pvars, svars>>
    \/ SendJsonReturns /\ UNCHANGED <<bh, pvars, svars>>
    \/ SendJsonRaises /\ UNCHANGED <<bh, pvars, svars>>

(***************************************************************************)
(* send_to_collection with the history of each call                         *)
(***************************************************************************)
\* the connections at the Python indices from .. to-1 of list
Visited(list, from, to) == {list[i] : i \in (from + 1)..Min(to, Len(list))}

NoBroadcast == [start |-> {}, visited |-> {},
                sent |-> [s \in Sessions |-> 0],
                collected |-> {}, pruned |-> {}]

\* ws is in active_connections or in some group's list
Registered(ws) ==
    \/ InActive(active_connections, ws)
    \/ \E k \in DOMAIN collection_connections :
           Contains(collection_connections[k], ws)

\* The loop runs over `list` from Python index `index` with `disconnected`
\* collected so far, up to its next send_json or to its end: the connections
\* it passes (visited), the send_json it calls (sent), the connections in
\* `disconnected` (collected) and, when the call ends, those of them the
\* clean-up still finds registered (pruned)
Track(h, list, index, disconnected) ==
    LET adv == Advance(list, index, disconnected) IN
    [h EXCEPT
        !.visited = @ \cup Visited(list, index, adv.index),
        !.sent = IF adv.done THEN @ ELSE [@ EXCEPT ![adv.connection] = @ + 1],
        !.collected = adv.disconnected,
        !.pruned = IF adv.done
                   THEN {c \in adv.disconnected : Registered(c)}
                   ELSE {}]

\* send_to_collection(collection_id) is entered: the group as it is now
TrackCall(collection_id) ==
    IF collection_id \notin DOMAIN collection_connections
    THEN bh' = NoBroadcast
    ELSE LET list == collection_connections[collection_id] IN
         bh' = Track([NoBroadcast EXCEPT
                         !.start = Visited(list, 0, Len(list))],
                     list, 0, {})

\* the loop goes on after a send_json that returned or raised
TrackResume(raised) ==
    bh' = Track(bh, IteratedList, bc.index,
                IF raised THEN bc.disconnected \cup {bc.connection}
                ELSE bc.disconnected)

NextBroadcast ==
    \/ \E ws \in Sessions, k \in OptKeys : Connect(ws, k) /\ UNCHANGED <<bh, pvars, svars>>
    \/ \E ws \in Sessions : Disconnect(ws, NoKey) /\ UNCHANGED <<bh, pvars, svars>>
    \/ \E ws \in Sessions : ClientCloses(ws) /\ UNCHANGED <<bh, pvars, svars>>
    \/ \E k \in Keys : SendToCollection(k) /\ TrackCall(k)
                        /\ UNCHANGED <<pvars, svars>>
    \/ SendJsonReturns /\ TrackResume(FALSE) /\ UNCHANGED <<pvars, svars>>
    \/ SendJsonRaises /\ TrackResume(TRUE) /\ UNCHANGED <<pvars, svars>>

(***************************************************************************)
(* Job tracker: routes/scripting_routes.py                                  *)
(***************************************************************************)
NumJobs == 2              \* POST /scripts requests (and uuid4 values) in use
TickSeconds == 100        \* the step in which the clock is observed
RetentionSeconds == 300   \* asyncio.sleep(300)

Requests == 1..NumJobs                     \* in the order they are handled
JobIds == {100 + i : i \in 1..NumJobs}     \* the values uuid4() returns
NoJob == 0

\* the dicts stored in generation_tasks; progress in tenths (0.1 is 1);
\* error tells whether the dict has an "error" entry
Record(status, progress) ==
    [status |-> status, progress |-> progress, error |-> FALSE]
ErrorRecord == [status |-> "error", progress |-> 0, error |-> TRUE]
NoRecord == [status |-> "none", progress |-> 0, error |-> FALSE]

\* d[k] = v and del d[k]
DictPut(d, k, v) == [x \in DOMAIN d \cup {k} |-> IF x = k THEN v ELSE d[x]]
DictDel(d, k) == [x \in DOMAIN d \ {k} |-> d[x]]

\* the response of a route: status code, where the body came from, and the
\* status/progress it carries
Response(route, id, code, source, record) ==
    [route |-> route, id |-> id, code |-> code, source |-> source,
     body |-> record]

JobsInit ==
    /\ issued = 0
    /\ script_id = [r \in Requests |-> NoJob]
    /\ generation_tasks = EmptyDict
    /\ task_pc = [r \in Requests |-> "none"]
    /\ repository = {}
    /\ elapsed = [r \in Requests |-> 0]
    /\ response = Response("none", NoJob, 0, "none", NoRecord)
    /\ transitions = [j \in JobIds |-> <<>>]

\* str(uuid.uuid4()): a value no earlier call returned (the unused ids are
\* interchangeable: the smallest is taken)
Uuid4 ==
    LET unused == JobIds \ {script_id[r] : r \in Requests}
    IN  {j \in unused : \A x \in unused : j <= x}

\* Faulty variant: the record is left to the background task to create
create_script_NoRecord(id) ==
    /\ issued < NumJobs
    /\ issued' = issued + 1
    /\ script_id' = [script_id EXCEPT ![issued + 1] = id]
    /\ task_pc' = [task_pc EXCEPT ![issued + 1] = "pending"]
    /\ response' = Response("create_script", id, 200, "handler",
                            Record("queued", 0))
    /\ UNCHANGED <<generation_tasks, transitions, repository, elapsed>>
    /\ UNCHANGED <<bvars, rvars, bh, pvars, gvars, svars>>

\* POST /scripts, with script_id the value uuid4() returned
create_script(id) ==
    /\ issued < NumJobs
    /\ issued' = issued + 1
    /\ script_id' = [script_id EXCEPT ![issued + 1] = id]
    /\ generation_tasks' = DictPut(generation_tasks, id, Record("queued", 0))
    /\ task_pc' = [task_pc EXCEPT ![issued + 1] = "pending"]
    /\ response' = Response("create_script", id, 200, "handler",
                            Record("queued", 0))
    /\ transitions' = [transitions EXCEPT ![id] = Append(@, Record("queued", 0))]
    /\ UNCHANGED <<repository, elapsed>>
    /\ UNCHANGED <<bvars, rvars, bh, pvars, gvars, svars>>

\* Faulty variant: only the "status" entry of the record is written
TaskStarts_StatusOnly(r) ==
    /\ task_pc[r] = "pending"
    /\ generation_tasks' =
           DictPut(generation_tasks, script_id[r],
                   [generation_tasks[script_id[r]] EXCEPT
                       !.status = "in_progress"])
    /\ transitions' = [transitions EXCEPT
                          ![script_id[r]] = Append(@, Record("in_progress", 1))]
    /\ task_pc' = [task_pc EXCEPT ![r] = "generate"]
    /\ UNCHANGED <<issued, script_id, repository, elapsed, response>>
    /\ UNCHANGED <<bvars, rvars, bh, pvars, gvars, svars>>

\* generate_script_in_background starts (after the response was sent) and
\* suspends in `await script_generator.generate_script(request)`
TaskStarts(r) ==
    /\ task_pc[r] = "pending"
    /\ generation_tasks' =
           DictPut(generation_tasks, script_id[r], Record("in_progress", 1))
    /\ transitions' = [transitions EXCEPT
                          ![script_id[r]] = Append(@, Record("in_progress", 1))]
    /\ task_pc' = [task_pc EXCEPT ![r] = "generate"]
    /\ UNCHANGED <<issued, script_id, repository, elapsed, response>>
    /\ UNCHANGED <<bvars, rvars, bh, pvars, gvars, svars>>

\* generate_script returns: lines 198-214 run without suspending (insert_one
\* is a blocking call that returns False instead of raising) up to
\* `await asyncio.sleep(300)`
GenerateReturns(r, inserted) ==
    /\ task_pc[r] = "generate"
    /\ generation_tasks' =
           DictPut(DictPut(generation_tasks, script_id[r],
                           Record("finalizing", 9)),
                   script_id[r], Record("completed", 10))
    /\ transitions' = [transitions EXCEPT
                          ![script_id[r]] = @ \o <<Record("finalizing", 9),
                                                   Record("completed", 10)>>]
    /\ repository' = IF inserted THEN repository \cup {script_id[r]}
                     ELSE repository
    /\ task_pc' = [task_pc EXCEPT ![r] = "sleep"]
    /\ elapsed' = [elapsed EXCEPT ![r] = 0]
    /\ UNCHANGED <<issued, script_id, response>>
    /\ UNCHANGED <<bvars, rvars, bh, pvars, gvars, svars>>

\* Faulty variant: no except clause: the exception ends the task and reaches
\* the event loop, the record stays as it was
GenerateRaises_Propagates(r) ==
    /\ task_pc[r] = "generate"
    /\ task_pc' = [task_pc EXCEPT ![r] = "crashed"]
    /\ UNCHANGED <<issued, script_id, generation_tasks, repository, elapsed,
                   response, transitions>>
    /\ UNCHANGED <<bvars, rvars, bh, pvars, gvars, svars>>

\* generate_script raises: the except clause writes the error record and the
\* task ends
GenerateRaises(r) ==
    /\ task_pc[r] = "generate"
    /\ generation_tasks' = DictPut(generation_tasks, script_id[r], ErrorRecord)
    /\ transitions' = [transitions EXCEPT
                          ![script_id[r]] = Append(@, ErrorRecord)]
    /\ task_pc' = [task_pc EXCEPT ![r] = "failed"]
    /\ elapsed' = [elapsed EXCEPT ![r] = 0]
    /\ UNCHANGED <<issued, script_id, repository, response>>
    /\ UNCHANGED <<bvars, rvars, bh, pvars, gvars, svars>>

\* TickSeconds pass. The clock is followed for the tasks that sleep and for
\* those that ended in the except clause, up to RetentionSeconds (all that
\* asyncio.sleep(300) can tell).
Timed(r) == task_pc[r] \in {"sleep", "failed"}

Tick ==
    /\ \E r \in Requests : Timed(r) /\ elapsed[r] < RetentionSeconds
    /\ elapsed' = [r \in Requests |->
                      IF Timed(r)
                      THEN Min(elapsed[r] + TickSeconds, RetentionSeconds)
                      ELSE elapsed[r]]
    /\ UNCHANGED <<issued, script_id, generation_tasks, task_pc, repository,
                   response, transitions>>
    /\ UNCHANGED <<bvars, rvars, bh, pvars, gvars, svars>>

\* Faulty variant: `del generation_tasks[script_id]` without the `in` test:
\* for a record that DELETE removed it raises KeyError, and the except clause
\* writes the error record
SleepReturns_Unguarded(r) ==
    /\ task_pc[r] = "sleep"
    /\ elapsed[r] >= RetentionSeconds
    /\ IF script_id[r] \in DOMAIN generation_tasks
       THEN /\ generation_tasks' = DictDel(generation_tasks, script_id[r])
            /\ task_pc' = [task_pc EXCEPT ![r] = "ended"]
            /\ UNCHANGED <<elapsed, transitions>>
       ELSE /\ generation_tasks' =
                   DictPut(generation_tasks, script_id[r], ErrorRecord)
            /\ transitions' = [transitions EXCEPT
                                  ![script_id[r]] = Append(@, ErrorRecord)]
            /\ task_pc' = [task_pc EXCEPT ![r] = "failed"]
            /\ elapsed' = [elapsed EXCEPT ![r] = 0]
    /\ UNCHANGED <<issued, script_id, repository, response>>
    /\ UNCHANGED <<bvars, rvars, bh, pvars, gvars, svars>>

\* Faulty variant: the record is deleted without waiting for the sleep
SleepReturns_Early(r) ==
    /\ task_pc[r] = "sleep"
    /\ generation_tasks' = IF script_id[r] \in DOMAIN generation_tasks
                           THEN DictDel(generation_tasks, script_id[r])
                           ELSE generation_tasks
    /\ task_pc' = [task_pc EXCEPT ![r] = "ended"]
    /\ UNCHANGED <<issued, script_id, repository, elapsed, response,
                   transitions>>
    /\ UNCHANGED <<bvars, rvars, bh, pvars, gvars, svars>>

\* asyncio.sleep(300) returns: lines 215-216, and the task ends
SleepReturns(r) ==
    /\ task_pc[r] = "sleep"
    /\ elapsed[r] >= RetentionSeconds
    /\ generation_tasks' = IF script_id[r] \in DOMAIN generation_tasks
                           THEN DictDel(generation_tasks, script_id[r])
                           ELSE generation_tasks
    /\ task_pc' = [task_pc EXCEPT ![r] = "ended"]
    /\ UNCHANGED <<issued, script_id, repository, elapsed, response,
                   transitions>>
    /\ UNCHANGED <<bvars, rvars, bh, pvars, gvars, svars>>

\* Faulty variant: the repository is asked first and 404 is raised for a
\* script it does not hold
get_script_status_RepositoryFirst(id, found) ==
    /\ response' =
           IF ~(found /\ id \in repository)
           THEN Response("get_script_status", id, 404, "none", NoRecord)
           ELSE IF id \in DOMAIN generation_tasks
           THEN Response("get_script_status", id, 200, "generation_tasks",
                         generation_tasks[id])
           ELSE Response("get_script_status", id, 200, "repository",
                         Record("completed", 10))
    /\ UNCHANGED <<issued, script_id, generation_tasks, task_pc, repository,
                   elapsed, transitions>>
    /\ UNCHANGED <<bvars, rvars, bh, pvars, gvars, svars>>

\* Faulty variant: 404 is raised for every id generation_tasks does not hold
get_script_status_NoFallback(id, found) ==
    /\ response' =
           IF id \in DOMAIN generation_tasks
           THEN Response("get_script_status", id, 200, "generation_tasks",
                         generation_tasks[id])
           ELSE Response("get_script_status", id, 404, "none", NoRecord)
    /\ UNCHANGED <<issued, script_id, generation_tasks, task_pc, repository,
                   elapsed, transitions>>
    /\ UNCHANGED <<bvars, rvars, bh, pvars, gvars, svars>>

\* GET /scripts/{script_id}/status; found: what script_repository.find_one
\* returns is truthy (it returns None when the query raises)
get_script_status(id, found) ==
    /\ response' =
           IF id \in DOMAIN generation_tasks
           THEN Response("get_script_status", id, 200, "generation_tasks",
                         generation_tasks[id])
           ELSE IF found /\ id \in repository
           THEN Response("get_script_status", id, 200, "repository",
                         Record("completed", 10))
           ELSE Response("get_script_status", id, 404, "none", NoRecord)
    /\ UNCHANGED <<issued, script_id, generation_tasks, task_pc, repository,
                   elapsed, transitions>>
    /\ UNCHANGED <<bvars, rvars, bh, pvars, gvars, svars>>

\* Faulty variant: the repository is asked without looking at generation_tasks
get_script_TrackerIgnored(id, found) ==
    /\ response' =
           IF found /\ id \in repository
           THEN Response("get_script", id, 200, "repository", NoRecord)
           ELSE Response("get_script", id, 404, "none", NoRecord)
    /\ UNCHANGED <<issued, script_id, generation_tasks, task_pc, repository,
                   elapsed, transitions>>
    /\ UNCHANGED <<bvars, rvars, bh, pvars, gvars, svars>>

\* GET /scripts/{script_id}; found as in get_script_status. The 202 carries
\* the record's status in its detail; the 200 carries the stored document
\* (source "repository")
get_script(id, found) ==
    /\ response' =
           IF /\ id \in DOMAIN generation_tasks
              /\ generation_tasks[id].status # "completed"
           THEN Response("get_script", id, 202, "generation_tasks",
                         generation_tasks[id])
           ELSE IF found /\ id \in repository
           THEN Response("get_script", id, 200, "repository", NoRecord)
           ELSE Response("get_script", id, 404, "none", NoRecord)
    /\ UNCHANGED <<issued, script_id, generation_tasks, task_pc, repository,
                   elapsed, transitions>>
    /\ UNCHANGED <<bvars, rvars, bh, pvars, gvars, svars>>

\* DELETE /scripts/{script_id} of a stored script, delete_one succeeding
delete_script(id) ==
    /\ id \in repository
    /\ repository' = repository \ {id}
    /\ generation_tasks' = IF id \in DOMAIN generation_tasks
                           THEN DictDel(generation_tasks, id)
                           ELSE generation_tasks
    /\ response' = Response("delete_script", id, 200, "handler", NoRecord)
    /\ UNCHANGED <<issued, script_id, task_pc, elapsed, transitions>>
    /\ UNCHANGED <<bvars, rvars, bh, pvars, gvars, svars>>

NextJobs ==
    \/ \E id \in Uuid4 : create_script(id)
    \/ \E r \in Requests : TaskStarts(r)
    \/ \E r \in Requests, inserted \in BOOLEAN : GenerateReturns(r, inserted)
    \/ \E r \in Requests : GenerateRaises(r)
    \/ Tick
    \/ \E r \in Requests : SleepReturns(r)
    \/ \E id \in JobIds, found \in BOOLEAN : get_script_status(id, found)
    \/ \E id \in JobIds, found \in BOOLEAN : get_script(id, found)
    \/ \E id \in JobIds : delete_script(id)

\* the task is cancelled while it awaits generate_script or asyncio.sleep:
\* CancelledError is raised at the await; it is no Exception, so the except
\* clause of line 218 does not run and the task ends with the record as the
\* last write left it
TaskCancelled(r) ==
    /\ task_pc[r] \in {"generate", "sleep"}
    /\ task_pc' = [task_pc EXCEPT ![r] = "cancelled"]
    /\ UNCHANGED <<issued, script_id, generation_tasks, repository, elapsed,
                   response, transitions>>
    /\ UNCHANGED <<bvars, rvars, bh, pvars, gvars, svars>>

\* the job routes and tasks, with tasks that may be cancelled
NextJobsCancel ==
    \/ NextJobs
    \/ \E r \in Requests : TaskCancelled(r)

\* uuid4() is not checked against generation_tasks: here it may return any
\* value, one that is in use included
NextJobIds ==
    \/ \E id \in JobIds : create_script(id)
    \/ \E r \in Requests : TaskStarts(r)
    \/ \E r \in Requests, inserted \in BOOLEAN : GenerateReturns(r, inserted)
    \/ \E r \in Requests : GenerateRaises(r)
    \/ Tick
    \/ \E r \in Requests : SleepReturns(r)
    \/ \E id \in JobIds, found \in BOOLEAN : get_script_status(id, found)
    \/ \E id \in JobIds, found \in BOOLEAN : get_script(id, found)
    \/ \E id \in JobIds : delete_script(id)

\* The event loop runs every task that can run, the generation backend
\* answers (or fails), the clock goes on and a sleep that is due returns.
\* Requests (POST, GET, DELETE) come when clients send them: no fairness.
FairJobs ==
    /\ WF_vars(Tick)
    /\ \A r \in Requests :
           /\ WF_vars(TaskStarts(r))
           /\ WF_vars((\E inserted \in BOOLEAN : GenerateReturns(r, inserted))
                          \/ GenerateRaises(r))
           /\ WF_vars(SleepReturns(r))

(***************************************************************************)
(* The broker handler: handle_data_collected (app/__init__.py)              *)
(***************************************************************************)
\* no call in flight; result and logged tell how the last call ended:
\* "returned" or "raised", and the error its except clause logged
NoCall == [pc |-> "idle", collection_id |-> NoKey, inserted |-> FALSE,
           result |-> "none", logged |-> "none"]

Ended(result, logged) == [NoCall EXCEPT !.result = result, !.logged = logged]

NoNotification == [eligible |-> {}, received |-> [s \in Sessions |-> 0]]

PipelineInit ==
    /\ hd = NoCall
    /\ notified = NoNotification

\* the sessions in the list of collection_id
MembersIn(coll, collection_id) ==
    IF collection_id \in DOMAIN coll
    THEN {coll[collection_id][i] : i \in 1..Len(coll[collection_id])}
    ELSE {}

\* history: of the sessions followed so far, those that are subscribed to the
\* call's collection_id and connected after the step; it is followed until
\* the broadcast is over
StillSubscribed(collection_id) ==
    {s \in notified.eligible :
        /\ s \in MembersIn(collection_connections', collection_id)
        /\ client_state'[s] = "CONNECTED"}

Watch ==
    notified' = IF hd.pc \in {"generate", "broadcast"}
                THEN [notified EXCEPT
                         !.eligible = StillSubscribed(hd.collection_id)]
                ELSE notified

\* handle_data_collected(message, headers) is called with
\* message.get("collection_id") = collection_id; valid: ScriptRequest(...)
\* accepts the fields of the message (it raises ValidationError otherwise).
\* The call suspends in `await script_generator.generate_script(request)`.
handle_data_collected(collection_id, valid) ==
    /\ hd.pc = "idle"
    /\ hd' = IF valid
             THEN [NoCall EXCEPT !.pc = "generate",
                                 !.collection_id = collection_id]
             ELSE Ended("returned", "request")
    /\ notified' =
           [NoNotification EXCEPT
               !.eligible =
                   IF valid
                   THEN {s \in MembersIn(collection_connections, collection_id) :
                            client_state[s] = "CONNECTED"}
                   ELSE {}]
    /\ UNCHANGED <<bvars, rvars, bh, jvars, gvars, svars>>

\* Faulty variant: the body is not inside try/except
HandlerGenerateRaises_Propagates ==
    /\ hd.pc = "generate"
    /\ hd' = Ended("raised", "none")
    /\ UNCHANGED notified
    /\ UNCHANGED <<bvars, rvars, bh, jvars, gvars, svars>>

\* generate_script raises (or the lines up to insert_one do): line 151 logs
\* the error and the call returns
HandlerGenerateRaises ==
    /\ hd.pc = "generate"
    /\ hd' = Ended("returned", "generation")
    /\ UNCHANGED notified
    /\ UNCHANGED <<bvars, rvars, bh, jvars, gvars, svars>>

\* Faulty variant: the call returns when the collection has no group
AfterStore_ReturnsWithoutGroup(broadcasting, suspended) ==
    IF broadcasting /\ suspended THEN "broadcast"
    ELSE IF broadcasting /\ ~last_op'.known THEN "idle"
    ELSE "publish"

\* where the call stands after lines 95-139: in send_to_collection when it
\* suspended in a send_json, else in publish_script_generated
AfterStore(broadcasting, suspended) ==
    IF broadcasting /\ suspended THEN "broadcast" ELSE "publish"

\* generate_script returns: lines 84-95 run without suspending, insert_one
\* returning `inserted`; with a stored script and a collection_id
\* send_to_collection is entered (lines 98-139), else line 142 is reached
HandlerGenerateReturns(inserted) ==
    /\ hd.pc = "generate"
    /\ LET broadcasting == inserted /\ hd.collection_id # NoKey IN
       /\ IF broadcasting
          THEN SendToCollection(hd.collection_id)
          ELSE UNCHANGED <<bvars, rvars, jvars, gvars>>
       /\ LET pc == AfterStore(broadcasting, bc'.pc = "send") IN
          hd' = IF pc = "idle" THEN Ended("returned", "none")
                ELSE [hd EXCEPT !.pc = pc, !.inserted = inserted]
    /\ Watch
    /\ UNCHANGED <<bh, svars>>

\* a send_json of the handler's send_to_collection call returns or raises;
\* when the call returns (it never raises) line 142 is reached
HandlerSendJson(raised) ==
    /\ hd.pc = "broadcast"
    /\ IF raised THEN SendJsonRaises ELSE SendJsonReturns
    /\ hd' = [hd EXCEPT !.pc = AfterStore(TRUE, bc'.pc = "send")]
    /\ notified' =
           [eligible |-> StillSubscribed(hd.collection_id),
            received |-> IF raised THEN notified.received
                         ELSE [notified.received EXCEPT ![bc.connection] = @ + 1]]
    /\ UNCHANGED <<bh, svars>>

\* `await message_broker.publish_script_generated(...)` returns, or raises
\* and line 151 logs the error: the call returns
HandlerPublishEnds(raised) ==
    /\ hd.pc = "publish"
    /\ hd' = Ended("returned", IF raised THEN "publish" ELSE "none")
    /\ UNCHANGED notified
    /\ UNCHANGED <<bvars, rvars, bh, jvars, gvars, svars>>

\* the handler with the ConnectionManager's other callers (the WebSocket
\* routes) at work between its steps
NextPipeline ==
    \/ \E k \in OptKeys, valid \in BOOLEAN : handle_data_collected(k, valid)
    \/ HandlerGenerateRaises
    \/ \E inserted \in BOOLEAN : HandlerGenerateReturns(inserted)
    \/ \E raised \in BOOLEAN : HandlerSendJson(raised)
    \/ \E raised \in BOOLEAN : HandlerPublishEnds(raised)
    \/ \E ws \in Sessions, k \in OptKeys :
           Connect(ws, k) /\ Watch /\ UNCHANGED <<bh, hd, svars>>
    \/ \E ws \in Sessions : Disconnect(ws, NoKey) /\ Watch /\ UNCHANGED <<bh, hd, svars>>
    \/ \E ws \in Sessions : ClientCloses(ws) /\ Watch /\ UNCHANGED <<bh, hd, svars>>

(***************************************************************************)
(* ScriptGeneratorMessageBroker: connect, publish_script_generated, close   *)
(***************************************************************************)
\* The gateway's attributes. connection is None, or the aio_pika connection
\* in the state it is in: "open", "lost" (an I/O failure took the transport
\* down; connect_robust connections come back by themselves) or "closed"
\* (close() was called on it). channel and queue are None or the object
\* assigned. task follows the consume_data_collected task startup_event
\* creates. last is the last call on the gateway and how it ended.
\* History: closed tells whether close() was called ("no", "once", "again"),
\* failed whether an I/O failure happened since connect() last returned.
\* the connections a caller may leave behind by calling connect() again
NumConnects == 2

NoGateway == [connection |-> "None", channel |-> "None", queue |-> "None",
              task |-> "none", last |-> <<"__init__", "returned">>,
              closed |-> "no", failed |-> FALSE, leaked |-> 0]

\* the routing keys of the two modules: providers/message_broker.py publishes
\* to SCRIPT_GENERATED_ROUTING_KEY, app/message_broker.py to
\* SCRIPT_VOICE_QUEUE and then to SCRIPT_IMAGE_QUEUE
Modules == {"providers", "app"}
Destinations(module) ==
    IF module = "providers" THEN <<"script.generated">>
    ELSE <<"script_voice", "script_image">>
AllDestinations == {"script.generated", "script_voice", "script_image"}

GatewayInit ==
    /\ gw = NoGateway
    /\ published = [d \in AllDestinations |-> 0]

\* the awaits of connect(), in order; failed_at = 0: none of them raises
ConnectStages == <<"connect_robust", "channel", "declare_data_collected",
                   "declare_script_generated", "declare_queue", "bind">>

Reached(failed_at, stage) == failed_at = 0 \/ failed_at > stage

\* connect(): each attribute is assigned when its await returns; an await
\* that raises is logged and re-raised (lines 27-29, ..., 84-86) with the
\* attributes assigned so far left as they are. Line 25 assigns the new
\* connection over whatever self.connection held: a connection that was
\* not closed stays open at the broker (a robust connection restores itself
\* when lost) with no reference left to it in the gateway (leaked).
connect(failed_at) ==
    /\ gw' = [gw EXCEPT
                 !.connection = IF Reached(failed_at, 1) THEN "open" ELSE @,
                 !.leaked = IF /\ Reached(failed_at, 1)
                               /\ gw.connection \in {"open", "lost"}
                            THEN @ + 1 ELSE @,
                 !.channel = IF Reached(failed_at, 2) THEN "set" ELSE @,
                 !.queue = IF Reached(failed_at, 5) THEN "set" ELSE @,
                 !.failed = IF failed_at = 0 THEN FALSE ELSE @,
                 !.last = <<"connect", IF failed_at = 0 THEN "returned"
                                       ELSE "raised">>]
    /\ UNCHANGED published
    /\ UNCHANGED <<bvars, rvars, bh, jvars, pvars, svars>>

\* startup_event, line 157: connect() returned, the consumer task is created
\* and enters `async for message in queue_iter`
ConsumerStarts ==
    /\ gw.last = <<"connect", "returned">>
    /\ gw.task = "none"
    /\ gw.connection = "open"
    /\ gw' = [gw EXCEPT !.task = "running"]
    /\ UNCHANGED published
    /\ UNCHANGED <<bvars, rvars, bh, jvars, pvars, svars>>

\* the queue iterator yields messages while its connection is open
Consuming == gw.task = "running" /\ gw.connection = "open"

\* an I/O failure takes the transport down, and the robust connection brings
\* it back; nothing in the gateway runs at either
ConnectionLost ==
    /\ gw.connection = "open"
    /\ gw' = [gw EXCEPT !.connection = "lost", !.failed = TRUE]
    /\ UNCHANGED published
    /\ UNCHANGED <<bvars, rvars, bh, jvars, pvars, svars>>

Reconnected ==
    /\ gw.connection = "lost"
    /\ gw' = [gw EXCEPT !.connection = "open"]
    /\ UNCHANGED published
    /\ UNCHANGED <<bvars, rvars, bh, jvars, pvars, svars>>

\* the failure reaches `async for`: lines 123-125 log it and re-raise, the
\* consumer task ends
IteratorRaises ==
    /\ gw.task = "running"
    /\ gw.connection = "lost"
    /\ consume_pc = "iter"
    /\ consume_pc' = "closed"
    /\ gw' = [gw EXCEPT !.task = "failed"]
    /\ UNCHANGED <<body, delivered, message, callback_calls, outcome,
                   ack_calls, reject_calls, trace>>
    /\ UNCHANGED published
    /\ UNCHANGED <<rvars, bh, jvars, pvars, svars>>

\* the iterator of a closed connection ends: line 121, the task returns
IteratorCloses ==
    /\ gw.task = "stopped"
    /\ consume_pc = "iter"
    /\ consume_pc' = "closed"
    /\ gw' = [gw EXCEPT !.task = "ended"]
    /\ UNCHANGED <<body, delivered, message, callback_calls, outcome,
                   ack_calls, reject_calls, trace>>
    /\ UNCHANGED published
    /\ UNCHANGED <<rvars, bh, jvars, pvars, svars>>

\* the awaits of publish_script_generated that can raise, in order:
\* declare_exchange, then one exchange.publish per destination
\* (json.dumps of the providers module raises before anything is published,
\* as declare_exchange does)
PublishStages(module) == <<"declare_exchange">> \o Destinations(module)

\* Faulty variant: the except clause logs the error and does not re-raise
PublishResult_Swallowed(failed_at) == "returned"

PublishResult(failed_at) == IF failed_at = 0 THEN "returned" ELSE "raised"

\* the count of `destination` after a call that failed at stage failed_at
PublishedAfter(module, failed_at, destination) ==
    LET stages == PublishStages(module)
        sent == {i \in 1..Len(stages) :
                    stages[i] = destination /\ Reached(failed_at, i)}
    IN  published[destination] + Cardinality(sent)

\* publish_script_generated(data) of either module: without a usable channel
\* declare_exchange raises (self.channel is None, or its connection is down)
publish_script_generated(module, failed_at) ==
    /\ \A d \in DOMAIN published : published[d] < NumEvents
    /\ failed_at \in 0..Len(PublishStages(module))
    /\ (gw.channel = "None" \/ gw.connection # "open") => failed_at = 1
    /\ published' = [d \in DOMAIN published |->
                        PublishedAfter(module, failed_at, d)]
    /\ gw' = [gw EXCEPT
                 !.failed = @ \/ (failed_at # 0 /\ gw.connection # "None"),
                 !.last = <<"publish_script_generated",
                            PublishResult(failed_at)>>]
    /\ UNCHANGED <<bvars, rvars, bh, jvars, pvars, svars>>

\* Faulty variant: self.connection.close() without the test of line 156
close_Unguarded ==
    /\ gw' = [gw EXCEPT
                 !.connection = IF @ = "None" THEN @ ELSE "closed",
                 !.task = IF @ = "running" /\ gw.connection # "None"
                          THEN "stopped" ELSE @,
                 !.closed = IF @ = "no" THEN "once" ELSE "again",
                 !.last = <<"close", IF gw.connection = "None" THEN "raised"
                                     ELSE "returned">>]
    /\ UNCHANGED published
    /\ UNCHANGED <<bvars, rvars, bh, jvars, pvars, svars>>

\* close(): `if self.connection: await self.connection.close()`; the
\* attribute keeps the connection, closing a closed aio_pika connection
\* returns, and the iterator of a closed connection yields nothing more
close ==
    /\ gw' = [gw EXCEPT
                 !.connection = IF @ = "None" THEN @ ELSE "closed",
                 !.task = IF @ = "running" /\ gw.connection # "None"
                          THEN "stopped" ELSE @,
                 !.closed = IF @ = "no" THEN "once" ELSE "again",
                 !.last = <<"close", "returned">>]
    /\ UNCHANGED published
    /\ UNCHANGED <<bvars, rvars, bh, jvars, pvars, svars>>

\* the gateway with its consume loop (an arbitrary callback) and its owner,
\* which connects when the gateway holds no open connection (startup_event)
NextGateway ==
    \/ \E failed_at \in 0..Len(ConnectStages) :
           gw.connection \in {"None", "closed"} /\ connect(failed_at)
    \/ ConsumerStarts
    \/ Consuming /\ ReceiveAndCall
    \/ gw.task \in {"running", "stopped"} /\ CallbackReturns
    \/ gw.task \in {"running", "stopped"} /\ CallbackRaises
    \/ ConnectionLost
    \/ Reconnected
    \/ IteratorRaises
    \/ IteratorCloses
    \/ \E module \in Modules, failed_at \in 0..3 :
           publish_script_generated(module, failed_at)
    \/ close

\* the gateway under a caller that calls connect() whenever it likes, e.g.
\* again after a connect() that raised past line 25, up to NumConnects
\* connections left behind
NextGatewayReconnect ==
    \/ \E failed_at \in 0..Len(ConnectStages) :
           gw.leaked < NumConnects /\ connect(failed_at)
    \/ ConnectionLost
    \/ Reconnected
    \/ \E module \in Modules, failed_at \in 0..3 :
           publish_script_generated(module, failed_at)
    \/ close

(***************************************************************************)
(* The session handlers: websocket_endpoint of /ws                          *)
(* (app/routes/websocket_routes.py) and of /direct-ws (main.py)             *)
(***************************************************************************)
\* no handler was called for the session yet
NoHandler == [route |-> "none", pc |-> "new", key |-> NoKey,
              data |-> "none", sending |-> "none", closed |-> FALSE,
              how |-> "none"]

SessionsInit ==
    /\ sh = [ws \in Sessions |-> NoHandler]
    /\ slot = [k \in Keys |-> NoSession]
    /\ first_frame = [ws \in Sessions |-> "none"]

\* websocket.send_json is called with a frame of this type. The frames of
\* one session go to its transport in the order of the send_json calls, and
\* after a send that raised the transport carries nothing more: the first
\* call is the first frame the peer can see.
Sent(ws, type) ==
    IF first_frame[ws] = "none"
    THEN [first_frame EXCEPT ![ws] = type]
    ELSE first_frame

\* /ws is requested with ?collection_id=k or without (None): line 27, the
\* handler enters its try statement and awaits websocket.accept()
ws_endpoint(ws, collection_id) ==
    /\ sh[ws].pc = "new"
    /\ sh' = [sh EXCEPT ![ws] = [@ EXCEPT !.route = "ws", !.pc = "accept",
                                          !.key = collection_id]]
    /\ UNCHANGED <<slot, first_frame>>
    /\ UNCHANGED <<bvars, rvars, bh, jvars, pvars, gvars>>

\* /direct-ws is requested. Lines 49-51: without a collection_id the handler
\* returns. Lines 54-61: when the slot of the collection_id holds a session
\* whose client_state is CONNECTED, old_connection.close() is awaited:
\* close() marks the session closed when it is called, and on a session
\* that is closed already it raises at once (logged, line 61). Then the
\* handler enters its try statement and awaits websocket.accept().
direct_ws_endpoint(ws, collection_id) ==
    /\ sh[ws].pc = "new"
    /\ IF collection_id = NoKey
       THEN sh' = [sh EXCEPT ![ws] = [@ EXCEPT !.route = "direct",
                                               !.pc = "ended",
                                               !.how = "returned"]]
       ELSE LET old == slot[collection_id] IN
            IF /\ old # NoSession
               /\ client_state[old] = "CONNECTED"
               /\ ~sh[old].closed
            THEN sh' = [sh EXCEPT
                    ![ws] = [@ EXCEPT !.route = "direct", !.pc = "close_old",
                                      !.key = collection_id],
                    ![old] = [@ EXCEPT !.closed = TRUE]]
            ELSE sh' = [sh EXCEPT
                    ![ws] = [@ EXCEPT !.route = "direct", !.pc = "accept",
                                      !.key = collection_id]]
    /\ UNCHANGED <<slot, first_frame>>
    /\ UNCHANGED <<bvars, rvars, bh, jvars, pvars, gvars>>

\* `await old_connection.close(...)` returns, or raises and is logged
CloseOldEnds(ws) ==
    /\ sh[ws].pc = "close_old"
    /\ sh' = [sh EXCEPT ![ws] = [@ EXCEPT !.pc = "accept"]]
    /\ UNCHANGED <<slot, first_frame>>
    /\ UNCHANGED <<bvars, rvars, bh, jvars, pvars, gvars>>

\* inside websocket.accept(): the peer's connect message is received and
\* client_state becomes CONNECTED; the accept message is then sent
AcceptReceivesConnect(ws) ==
    /\ sh[ws].pc = "accept"
    /\ sh' = [sh EXCEPT ![ws] = [@ EXCEPT !.pc = "accepting"]]
    /\ client_state' = [client_state EXCEPT ![ws] = "CONNECTED"]
    /\ UNCHANGED <<slot, first_frame>>
    /\ UNCHANGED <<active_connections, collection_connections, bc,
                   subscribed, last_op>>
    /\ UNCHANGED <<bvars, bh, jvars, pvars, gvars>>

\* Faulty variant: /direct-ws registers the session and enters its loop
\* without sending the connection_established frame
AfterAccept_DirectWithoutAck(route) ==
    IF route = "ws"
    THEN [register |-> FALSE, sending |-> "connection_established"]
    ELSE [register |-> TRUE, sending |-> "none"]

\* what the handler does when accept() has returned, up to its next await.
\* /ws, lines 33-37: send_json(connection_established) is called; the
\* session is registered when that send has returned (line 41).
\* /direct-ws, lines 69-84: the session is stored in the slot and registered
\* (connection_manager.connect has no await inside: awaiting it does not
\* suspend the handler), then send_json(connection_established) is called.
AfterAccept(route) ==
    IF route = "ws"
    THEN [register |-> FALSE, sending |-> "connection_established"]
    ELSE [register |-> TRUE, sending |-> "connection_established"]

\* the handler of ws goes on to the await of send_json(type), or, with no
\* frame to send, to the await of receive_text
Awaits(ws, type) ==
    /\ sh' = [sh EXCEPT ![ws] =
                 [@ EXCEPT !.pc = IF type = "none" THEN "receive"
                                  ELSE IF @ = "accepting" THEN "ack"
                                  ELSE "reply",
                           !.sending = type]]
    /\ first_frame' = IF type = "none" THEN first_frame ELSE Sent(ws, type)

\* websocket.accept() returns
AcceptReturns(ws) ==
    /\ sh[ws].pc = "accepting"
    /\ Awaits(ws, AfterAccept(sh[ws].route).sending)
    /\ IF AfterAccept(sh[ws].route).register
       THEN /\ slot' = [slot EXCEPT ![sh[ws].key] = ws]
            /\ Connect(ws, sh[ws].key)
       ELSE /\ UNCHANGED slot
            /\ UNCHANGED rvars
            /\ UNCHANGED <<bvars, jvars, gvars>>
    /\ UNCHANGED <<bh, pvars>>

\* Faulty variant: the handler returns without the clean-up of its finally
\* clause
Finally_WithoutCleanUp(ws, how) ==
    /\ sh' = [sh EXCEPT ![ws] = [@ EXCEPT !.pc = "ended", !.how = how,
                                          !.sending = "none"]]
    /\ UNCHANGED <<slot, first_frame>>
    /\ UNCHANGED <<active_connections, collection_connections, bc,
                   subscribed, last_op>>
    /\ UNCHANGED <<bvars, bh, jvars, pvars, gvars>>

\* the try statement is left, by an exception an except clause logged or by
\* one that goes on to the caller (CancelledError): the finally clause runs.
\* /direct-ws, lines 110-112: the slot is emptied when it holds this session.
\* Both routes: connection_manager.disconnect(websocket, collection_id).
Finally(ws, how) ==
    /\ sh' = [sh EXCEPT ![ws] = [@ EXCEPT !.pc = "ended", !.how = how,
                                          !.sending = "none"]]
    /\ slot' = IF /\ sh[ws].route = "direct"
                  /\ slot[sh[ws].key] = ws
               THEN [slot EXCEPT ![sh[ws].key] = NoSession]
               ELSE slot
    /\ Unregister(ws, sh[ws].key)
    /\ UNCHANGED first_frame
    /\ UNCHANGED <<bvars, bh, jvars, pvars, gvars>>

InTry(ws) == sh[ws].pc \in {"accept", "accepting", "ack", "receive", "reply"}

\* websocket.accept() raises: except Exception (line 92; main.py line 106)
AcceptRaises(ws) ==
    /\ sh[ws].pc \in {"accept", "accepting"}
    /\ Finally(ws, "error")
    /\ UNCHANGED client_state

\* the send_json of the connection_established frame returns.
\* /ws, line 41: the session is registered now; both routes enter the loop
\* and await receive_text
AckReturns(ws) ==
    /\ sh[ws].pc = "ack"
    /\ Awaits(ws, "none")
    /\ IF sh[ws].route = "ws"
       THEN Connect(ws, sh[ws].key)
       ELSE /\ UNCHANGED rvars
            /\ UNCHANGED <<bvars, jvars, gvars>>
    /\ UNCHANGED <<slot, bh, pvars>>

\* the send_json of the connection_established frame raises
AckRaises(ws) ==
    /\ sh[ws].pc = "ack"
    /\ Finally(ws, "error")
    /\ UNCHANGED client_state

\* Faulty variant: /ws echoes the text without parsing it, as /direct-ws does
Answer_EchoesUnparsed(route, data) == "echo"

\* the frame the handler answers a received text frame with.
\* /ws, lines 59-75: json.loads(data), then the echo frame; on
\* JSONDecodeError the error frame. /direct-ws, lines 95-98: the echo frame,
\* whatever the text is.
Answer(route, data) ==
    IF route = "ws" /\ data = "malformed" THEN "error" ELSE "echo"

FrameKinds == {"json", "malformed"}

\* receive_text returns a text frame that is JSON or is not
ReceiveText(ws, data) ==
    /\ sh[ws].pc = "receive"
    /\ sh' = [sh EXCEPT ![ws] =
                 [@ EXCEPT !.pc = "reply", !.data = data,
                           !.sending = Answer(sh[ws].route, data)]]
    /\ first_frame' = Sent(ws, Answer(sh[ws].route, data))
    /\ UNCHANGED slot
    /\ UNCHANGED <<rvars, bvars, bh, jvars, pvars, gvars>>

\* wait_for times out: lines 85-88 (main.py 99-103), the ping frame is sent
\* when client_state is CONNECTED; otherwise the loop awaits receive_text again
ReceiveTimeout(ws) ==
    /\ sh[ws].pc = "receive"
    /\ IF client_state[ws] = "CONNECTED"
       THEN /\ sh' = [sh EXCEPT ![ws] = [@ EXCEPT !.pc = "reply",
                                                  !.sending = "ping"]]
            /\ first_frame' = Sent(ws, "ping")
       ELSE UNCHANGED <<sh, first_frame>>
    /\ UNCHANGED slot
    /\ UNCHANGED <<rvars, bvars, bh, jvars, pvars, gvars>>

\* receive_text gets the disconnect message of a peer that went away, or
\* that answered the close() of a later handler: client_state becomes
\* DISCONNECTED and WebSocketDisconnect is raised (line 90; main.py line 104)
ReceiveDisconnect(ws) ==
    /\ sh[ws].pc = "receive"
    /\ client_state' = [client_state EXCEPT ![ws] = "DISCONNECTED"]
    /\ Finally(ws, "disconnect")

\* the send_json of an echo, error or ping frame returns: the loop awaits
\* receive_text again
ReplyReturns(ws) ==
    /\ sh[ws].pc = "reply"
    /\ sh' = [sh EXCEPT ![ws] = [@ EXCEPT !.pc = "receive", !.data = "none",
                                          !.sending = "none"]]
    /\ UNCHANGED <<slot, first_frame>>
    /\ UNCHANGED <<rvars, bvars, bh, jvars, pvars, gvars>>

\* the send_json of an echo, error or ping frame raises. /ws, lines 76-82:
\* the echo is inside the inner try statement, whose except Exception sends
\* an error frame when client_state is CONNECTED (and goes on with the loop
\* when it is not). Every other send is outside a try statement that would
\* catch it: the handler's except clause logs it, then the finally clause.
ReplyRaises(ws) ==
    /\ sh[ws].pc = "reply"
    /\ IF sh[ws].route = "ws" /\ sh[ws].sending = "echo"
       THEN /\ sh' = [sh EXCEPT ![ws] =
                         IF client_state[ws] = "CONNECTED"
                         THEN [@ EXCEPT !.sending = "error"]
                         ELSE [@ EXCEPT !.pc = "receive", !.data = "none",
                                        !.sending = "none"]]
            /\ UNCHANGED <<slot, first_frame>>
            /\ UNCHANGED <<rvars, bvars, bh, jvars, pvars, gvars>>
       ELSE /\ Finally(ws, "error")
            /\ UNCHANGED client_state

\* the handler's task is cancelled at the await it stands at: CancelledError
\* is no Exception, no except clause catches it. Inside the try statement the
\* finally clause runs; the await of old_connection.close() is before it.
Cancelled(ws) ==
    \/ /\ InTry(ws)
       /\ Finally(ws, "cancelled")
       /\ UNCHANGED client_state
    \/ /\ sh[ws].pc = "close_old"
       /\ sh' = [sh EXCEPT ![ws] = [@ EXCEPT !.pc = "ended",
                                             !.how = "cancelled"]]
       /\ UNCHANGED <<slot, first_frame>>
       /\ UNCHANGED <<bvars, rvars, bh, jvars, pvars, gvars>>

\* a step of send_to_collection: when it calls send_json on a session, the
\* script_generated frame is put on that session
Notifies ==
    /\ first_frame' = IF bc'.pc = "send" /\ bc'.index # bc.index
                      THEN Sent(bc'.connection, "script_generated")
                      ELSE first_frame
    /\ UNCHANGED <<sh, slot, bh, pvars>>

\* the handlers of the sessions, each on either route, and the broker
\* handler's broadcasts. A send_json on a session close() was called on may
\* still return when it was called before the close, and raises otherwise.
NextSessions ==
    \/ \E ws \in Sessions, k \in OptKeys : ws_endpoint(ws, k)
    \/ \E ws \in Sessions, k \in OptKeys : direct_ws_endpoint(ws, k)
    \/ \E ws \in Sessions : CloseOldEnds(ws)
    \/ \E ws \in Sessions : AcceptReceivesConnect(ws)
    \/ \E ws \in Sessions : AcceptReturns(ws)
    \/ \E ws \in Sessions : AcceptRaises(ws)
    \/ \E ws \in Sessions : AckReturns(ws)
    \/ \E ws \in Sessions : AckRaises(ws)
    \/ \E ws \in Sessions, data \in FrameKinds : ReceiveText(ws, data)
    \/ \E ws \in Sessions : ReceiveTimeout(ws)
    \/ \E ws \in Sessions : ReceiveDisconnect(ws)
    \/ \E ws \in Sessions : ReplyReturns(ws)
    \/ \E ws \in Sessions : ReplyRaises(ws)
    \/ \E ws \in Sessions : Cancelled(ws)
    \/ \E k \in Keys : SendToCollection(k) /\ Notifies
    \/ SendJsonReturns /\ Notifies
    \/ SendJsonRaises /\ Notifies

(***************************************************************************)
(* Specifications                                                           *)
(***************************************************************************)
InitConsume ==
    /\ body \in [Events -> BodyKinds]
    /\ ConsumeInit
    /\ RegistryInit
    /\ bh = NoBroadcast
    /\ JobsInit
    /\ PipelineInit
    /\ GatewayInit
    /\ SessionsInit

InitRegistry ==
    /\ body = [e \in Events |-> "json_object"]
    /\ ConsumeInit
    /\ RegistryInit
    /\ bh = NoBroadcast
    /\ JobsInit
    /\ PipelineInit
    /\ GatewayInit
    /\ SessionsInit

\* no session exists yet: each WebSocket object starts CONNECTING
InitSessions ==
    /\ body = [e \in Events |-> "json_object"]
    /\ ConsumeInit
    /\ active_connections = [s \in Sessions |-> 0]
    /\ collection_connections = EmptyDict
    /\ client_state = [s \in Sessions |-> "CONNECTING"]
    /\ bc = Idle
    /\ subscribed = [k \in Keys |-> {}]
    /\ last_op = Did("init", FALSE, FALSE)
    /\ bh = NoBroadcast
    /\ JobsInit
    /\ PipelineInit
    /\ GatewayInit
    /\ SessionsInit

SpecConsume == InitConsume /\ [][NextConsume]_vars
SpecRegistry == InitRegistry /\ [][NextRegistry]_vars
\* the ConnectionManager again, each send_to_collection call with its history
SpecBroadcast == InitRegistry /\ [][NextBroadcast]_vars
\* the job tracker and the tasks that write it
SpecJobs == InitRegistry /\ [][NextJobs]_vars
SpecJobsFair == SpecJobs /\ FairJobs
SpecJobIds == InitRegistry /\ [][NextJobIds]_vars
SpecJobsCancel == InitRegistry /\ [][NextJobsCancel]_vars
\* the broker handler and the ConnectionManager it broadcasts through
SpecPipeline == InitRegistry /\ [][NextPipeline]_vars
\* the gateway's connection, its consumer task and its publishes
SpecGatewayReconnect == InitRegistry /\ [][NextGatewayReconnect]_vars
SpecGateway == InitRegistry /\ [][NextGateway]_vars
\* the session handlers of both routes with the broadcasts to their sessions
SpecSessions == InitSessions /\ [][NextSessions]_vars

(***************************************************************************)
(* Properties of the consume loop (checked under SpecConsume)               *)
(***************************************************************************)
\* positions of <<what, e>> in the history
At(what, e) == {i \in 1..Len(trace) : trace[i] = <<what, e>>}
Before(I, J) == \A i \in I, j \in J : i < j
\* the loop has finished with event e
Consumed(e) == e <= delivered /\ message # e

\* C1: an event whose callback raised an exception is never acknowledged
\* (the claim as stated; the code acknowledges it).
C1_NoAckWhenCallbackRaises ==
    \A e \in Events : outcome[e] = "raised" => ack_calls[e] = 0

\* C2: an event whose callback returned normally is acknowledged exactly once
\* and never rejected, the acknowledgement comes after the return, and no
\* event is acknowledged while its callback is still running.
C2_AckOnceAfterReturn ==
    /\ \A e \in Events :
          (consume_pc = "callback" /\ message = e) =>
              ack_calls[e] = 0 /\ At("ack", e) = {}
    /\ \A e \in Events :
          outcome[e] = "returned" =>
              /\ ack_calls[e] = 1
              /\ reject_calls[e] = 0
              /\ Cardinality(At("ack", e)) = 1
              /\ Cardinality(At("return", e)) = 1
              /\ Before(At("call", e), At("return", e))
              /\ Before(At("return", e), At("ack", e))

C2_Witness ==
    \E e \in Events : outcome[e] = "returned" /\ ack_calls[e] = 1

\* C3: the step that takes an event with an undecodable body (invalid bytes or
\* invalid JSON) acknowledges it once, does not reject it, does not call the
\* callback for it (or for any event) and leaves the loop waiting for the
\* next message; the callback is never called for such an event, and a loop
\* that waits while events remain can take the next one.
C3_UndecodableAckedAndDropped ==
    /\ [](\A e \in Events : Undecodable(e) => callback_calls[e] = 0)
    /\ []((consume_pc = "iter" /\ delivered < NumEvents) =>
              ENABLED (ReceiveAndDrop \/ ReceiveAndCall))
    /\ [][\A e \in Events :
             (delivered = e - 1 /\ delivered' = e /\ Undecodable(e)) =>
                 /\ ack_calls' = [ack_calls EXCEPT ![e] = 1]
                 /\ reject_calls' = reject_calls
                 /\ callback_calls' = callback_calls
                 /\ consume_pc' = "iter"]_vars

C3_Witness ==
    \E e \in Events :
        /\ e < NumEvents
        /\ Undecodable(e)
        /\ ack_calls[e] = 1
        /\ callback_calls[e] = 0
        /\ callback_calls[e + 1] = 1

\* C4 as stated: the callback is called exactly once for every consumed event
\* whose body is decodable (valid bytes, valid JSON), in delivery order and one
\* at a time.
C4_CalledOncePerDecodable ==
    \A e \in Events :
        (Consumed(e) /\ ~Undecodable(e)) => callback_calls[e] = 1

\* C4 as amended: the callback is called exactly once for every event whose
\* body decodes to a JSON object and never for any other event; the calls come
\* in delivery order; when the callback of an event is called, every earlier
\* event has been acknowledged and every earlier callback has returned or
\* raised.
C4_CalledOncePerObjectInOrder ==
    /\ \A e \in Events :
          callback_calls[e] =
              IF e <= delivered /\ body[e] = "json_object" THEN 1 ELSE 0
    /\ \A e \in Events : Cardinality(At("call", e)) = callback_calls[e]
    /\ \A e1, e2 \in Events :
          e1 < e2 =>
              /\ Before(At("call", e1), At("call", e2))
              /\ At("call", e2) # {} =>
                    /\ At("ack", e1) # {}
                    /\ Before(At("ack", e1), At("call", e2))
                    /\ At("call", e1) # {} =>
                          /\ At("return", e1) \cup At("raise", e1) # {}
                          /\ Before(At("return", e1) \cup At("raise", e1),
                                    At("call", e2))

C4_Witness ==
    \E e \in Events :
        /\ e + 2 <= NumEvents
        /\ body[e] = "json_object" /\ outcome[e] = "returned"
        /\ body[e + 1] = "json_non_object" /\ Consumed(e + 1)
        /\ callback_calls[e + 1] = 0
        /\ callback_calls[e + 2] = 1

(***************************************************************************)
(* Properties of the ConnectionManager (checked under SpecRegistry)         *)
(***************************************************************************)
Members(k) == {collection_connections[k][i] :
                   i \in 1..Len(collection_connections[k])}
GroupsOf(ws) == {k \in DOMAIN collection_connections : ws \in Members(k)}
NoDuplicates ==
    /\ \A ws \in Sessions : active_connections[ws] <= 1
    /\ \A k \in DOMAIN collection_connections, ws \in Sessions :
          Count(collection_connections[k], ws) <= 1

\* C5: every session in a collection group is in active_connections.
C5_GroupMembersAreActive ==
    \A k \in DOMAIN collection_connections :
        \A ws \in Members(k) : InActive(active_connections, ws)

C5_Witness ==
    /\ last_op.op = "disconnect" /\ last_op.known
    /\ \E k \in DOMAIN collection_connections :
          \E ws \in Members(k) : InActive(active_connections, ws)
    /\ \E ws \in Sessions : ~InActive(active_connections, ws)

\* C6: the list recorded for a key is as long as the set of sessions that
\* subscribed to the key and have not been unsubscribed since (by disconnect
\* or by send_to_collection's pruning), and no key has an empty list.
C6_SizeMatchesSubscriptions ==
    \A k \in Keys :
        IF k \in DOMAIN collection_connections
        THEN /\ Len(collection_connections[k]) = Cardinality(subscribed[k])
             /\ Len(collection_connections[k]) > 0
        ELSE subscribed[k] = {}

C6_Witness ==
    /\ last_op.op = "send_to_collection" /\ last_op.known
    /\ \E k \in Keys : k \notin DOMAIN collection_connections
    /\ \E k \in DOMAIN collection_connections :
          Len(collection_connections[k]) = 1

\* C7: no session is in the lists of two different collection keys
\* (the claim as stated; connect(s, k1) then connect(s, k2) puts s in both).
C7_AtMostOneGroup ==
    \A ws \in Sessions : Cardinality(GroupsOf(ws)) <= 1

\* C8: a connect call that repeats a subscription (the session is in
\* active_connections and, when a key is given, in that key's list) changes
\* neither container; no session is ever twice in active_connections or in a
\* group's list.
IsSubscribed(ws, k) ==
    /\ InActive(active_connections, ws)
    /\ k # NoKey => k \in GroupsOf(ws)

C8_ConnectIdempotent ==
    /\ []NoDuplicates
    /\ [][\A ws \in Sessions, k \in OptKeys :
             (Connect(ws, k) /\ IsSubscribed(ws, k)) =>
                 /\ active_connections' = active_connections
                 /\ collection_connections' = collection_connections]_vars

C8_Witness ==
    /\ last_op.op = "connect" /\ last_op.known
    /\ \E k \in DOMAIN collection_connections :
          Len(collection_connections[k]) = 2

\* C9: disconnect(ws) leaves ws out of active_connections and out of every
\* list, deletes the lists that held only ws, keeps every other list and
\* every other element as they were, and raises nothing; for a session that
\* is registered nowhere it changes neither container.
Without(list, ws) == LET Other(x) == x # ws IN SelectSeq(list, Other)

C9_DisconnectRemovesEverywhere ==
    [][\A ws \in Sessions :
          Disconnect(ws, NoKey) =>
              /\ active_connections' = [active_connections EXCEPT ![ws] = 0]
              /\ DOMAIN collection_connections' =
                     {k \in DOMAIN collection_connections : Members(k) # {ws}}
              /\ \A k \in DOMAIN collection_connections' :
                     collection_connections'[k] =
                         Without(collection_connections[k], ws)
              /\ client_state' = client_state
              /\ ~last_op'.error
              /\ (~InActive(active_connections, ws) /\ GroupsOf(ws) = {}) =>
                     /\ active_connections' = active_connections
                     /\ collection_connections' = collection_connections]_vars

C9_Witness ==
    /\ last_op.op = "disconnect" /\ last_op.known /\ ~last_op.error
    /\ \E k \in DOMAIN collection_connections :
          Len(collection_connections[k]) = 1
    /\ \E k \in Keys : k \notin DOMAIN collection_connections

AttemptBegins(ws) ==
    bc'.pc = "send" /\ bc'.connection = ws /\ bc'.index # bc.index

RestOf(list, index) == SubSeq(list, index + 1, Len(list))
IsConnected(ws) == client_state[ws] = "CONNECTED"

C13_ReflectsMembershipAtCall ==
    (bc.pc = "idle" /\ last_op.op = "send_to_collection" /\ last_op.known) =>
        bh.visited = bh.start

\* C14 (the claim as stated): within one send_to_collection call no session
\* gets send_json called twice. A session that is disconnected and connected
\* again during a suspended send moves behind the loop's index and is sent to
\* once more.
C14_AtMostOncePerSession ==
    \A ws \in Sessions : bh.sent[ws] <= 1

(***************************************************************************)
(* Properties of the job tracker (checked under SpecJobs unless said)       *)
(***************************************************************************)
InTracker(id) == id \in DOMAIN generation_tasks
Last(seq) == seq[Len(seq)]
Terminal(record) == record.status \in {"completed", "error"}
\* Queued < Processing < Finalizing < Completed; Failed has no successor
Rank(status) ==
    CASE status = "queued" -> 1
      [] status = "in_progress" -> 2
      [] status = "finalizing" -> 3
      [] status = "completed" -> 4
      [] status = "error" -> 4

\* C15: POST /scripts stores the record {queued, 0} under the id it returns,
\* an id that had no record, and touches no other record; the record stays
\* {queued, 0} until the request's background task starts.
C15_CreateInsertsQueued ==
    /\ [](\A r \in Requests :
              task_pc[r] = "pending" =>
                  /\ InTracker(script_id[r])
                  /\ generation_tasks[script_id[r]] = Record("queued", 0))
    /\ [][\A id \in JobIds :
             create_script(id) =>
                 /\ ~InTracker(id)
                 /\ DOMAIN generation_tasks' = DOMAIN generation_tasks \cup {id}
                 /\ generation_tasks'[id] = Record("queued", 0)
                 /\ \A other \in DOMAIN generation_tasks :
                        generation_tasks'[other] = generation_tasks[other]
                 /\ response'.id = id
                 /\ response'.code = 200
                 /\ response'.body.status = "queued"]_vars

\* a second job was created, and is still queued, after the first one moved on
C15_Witness ==
    /\ response.route = "create_script"
    /\ issued = 2
    /\ task_pc[1] = "generate" /\ task_pc[2] = "pending"
    /\ generation_tasks[script_id[1]].status = "in_progress"
    /\ generation_tasks[script_id[2]] = Record("queued", 0)

\* C16 (the claim as stated): a create for an id that has a record in the
\* tracker fails and leaves the record as it was. create_script has no such
\* test: line 30 assigns the queued record whatever the dict holds.
C16_DuplicateCreateFails ==
    [][\A id \in JobIds :
          (create_script(id) /\ InTracker(id)) =>
              /\ generation_tasks'[id] = generation_tasks[id]
              /\ response'.code # 200]_vars

\* C17: the records written under an id go up strictly along
\* queued, in_progress, finalizing, completed, with error only after a
\* non-terminal record and nothing after completed or error; the tracker
\* holds the last of them; a record that was removed does not come back.
C17_StatusMonotonic ==
    /\ [](\A id \in JobIds :
              /\ \A i \in 1..(Len(transitions[id]) - 1) :
                     /\ ~Terminal(transitions[id][i])
                     /\ Rank(transitions[id][i].status) <
                            Rank(transitions[id][i + 1].status)
              /\ InTracker(id) =>
                     /\ transitions[id] # <<>>
                     /\ generation_tasks[id] = Last(transitions[id]))
    /\ [][\A id \in JobIds :
             /\ (InTracker(id) /\ InTracker(id)') =>
                    /\ Rank(generation_tasks'[id].status) >=
                           Rank(generation_tasks[id].status)
                    /\ Terminal(generation_tasks[id]) =>
                           generation_tasks'[id] = generation_tasks[id]
             /\ (~InTracker(id) /\ InTracker(id)') =>
                    transitions[id] = <<>>]_vars

\* one job went all the way to completed, the other one to error
C17_Witness ==
    \E id1, id2 \in JobIds :
        /\ Len(transitions[id1]) = 4
        /\ Last(transitions[id1]).status = "completed"
        /\ Len(transitions[id2]) = 3
        /\ Last(transitions[id2]).status = "error"
        /\ InTracker(id2)

\* C18 (the claim as stated, under SpecJobsFair): a record that is completed
\* or error is eventually out of the tracker. The task that wrote "error" has
\* ended without a sleep and a delete: its record stays.
C18_TerminalEventuallyRemoved ==
    \A id \in JobIds :
        [](InTracker(id) /\ Terminal(generation_tasks[id]) =>
               <>(~InTracker(id)))

\* C19: a record leaves the tracker only by DELETE or by the background task
\* of its id when that task's sleep returns, and then the record is
\* completed and RetentionSeconds have passed since it was written (never a
\* queued, in_progress or finalizing record); an id whose record was removed
\* has no record again, so that a later status lookup answers from the
\* repository or with 404, not from the tracker.
Removed(id) == transitions[id] # <<>> /\ ~InTracker(id)

C19_ExpiryOnlyAfterRetention ==
    [][\A id \in JobIds :
             /\ (InTracker(id) /\ ~InTracker(id)' /\ ~delete_script(id)) =>
                    \E r \in Requests :
                        /\ script_id[r] = id
                        /\ SleepReturns(r)
                        /\ generation_tasks[id] = Record("completed", 10)
                        /\ elapsed[r] >= RetentionSeconds
             /\ Removed(id) => Removed(id)'
             /\ \A found \in BOOLEAN :
                    (get_script_status(id, found) /\ Removed(id)) =>
                        /\ response'.source # "generation_tasks"
                        /\ response'.code = 404
                               \/ response'.body = Record("completed", 10)]_vars

\* the sleep of a stored job returned, its record is gone and a status lookup
\* was answered from the repository
C19_Witness ==
    \E r \in Requests :
        /\ task_pc[r] = "ended"
        /\ elapsed[r] >= RetentionSeconds
        /\ Removed(script_id[r])
        /\ script_id[r] \in repository
        /\ response.route = "get_script_status"
        /\ response.id = script_id[r]
        /\ response.source = "repository"

\* C20: a status lookup of an id that has a record answers 200 with the
\* status and progress (and error entry) of the last record written under
\* the id.
C20_LookupReturnsLatest ==
    [][\A id \in JobIds, found \in BOOLEAN :
          (get_script_status(id, found) /\ InTracker(id)) =>
              /\ response'.code = 200
              /\ response'.id = id
              /\ response'.body = Last(transitions[id])]_vars

\* lookups that returned a record written by a transition of the task
C20_Witness ==
    /\ response.route = "get_script_status"
    /\ response.source = "generation_tasks"
    /\ response.body = Record("in_progress", 1)
    /\ Len(transitions[response.id]) = 2
    /\ response.id \notin repository

\* C21: a status lookup of an id that has no record answers 200 with
\* {completed, 1.0} when find_one returns a document for the id (the
\* repository holds it and the query answers), and 404 when it returns None;
\* no lookup answers 404 for an id that has a record.
C21_LookupFallsBackToRepository ==
    [][\A id \in JobIds, found \in BOOLEAN :
          get_script_status(id, found) =>
              /\ (~InTracker(id) /\ found /\ id \in repository) =>
                     response' = Response("get_script_status", id, 200,
                                          "repository", Record("completed", 10))
              /\ (~InTracker(id) /\ ~(found /\ id \in repository)) =>
                     response'.code = 404
              /\ response'.code = 404 => ~InTracker(id)]_vars

\* a lookup of a stored script whose record was removed, answered from the
\* repository while another job still has its record
C21_Witness ==
    /\ response.route = "get_script_status"
    /\ response.code = 200
    /\ response.source = "repository"
    /\ ~InTracker(response.id)
    /\ response.id \in repository
    /\ \E id \in JobIds : InTracker(id)

\* C22: GET /scripts/{id} of an id whose record has a status other than
\* completed answers 202 with that status; it answers 200 with the stored
\* document only for an id that has no record or a completed one.
C22_InProgressAnswers202 ==
    [][\A id \in JobIds, found \in BOOLEAN :
          get_script(id, found) =>
              /\ (InTracker(id) /\ generation_tasks[id].status # "completed") =>
                     /\ response'.code = 202
                     /\ response'.body = generation_tasks[id]
                     /\ response'.source # "repository"
              /\ response'.source = "repository" =>
                     /\ response'.code = 200
                     /\ id \in repository
                     /\ InTracker(id) =>
                            generation_tasks[id].status = "completed"]_vars

\* GET /scripts/{id} answered 202 for a job whose generation is in flight
C22_Witness ==
    /\ response.route = "get_script"
    /\ response.code = 202
    /\ response.body = Record("in_progress", 1)
    /\ \E r \in Requests :
          script_id[r] = response.id /\ task_pc[r] = "generate"

\* C23: when generate_script raises in the background task, the task writes
\* the error record (status error, with the message) and ends without the
\* exception leaving it; the record stays, and a status lookup of the id
\* answers 200 with it.
C23_BackendErrorIsRecorded ==
    /\ [](\A r \in Requests :
             /\ task_pc[r] # "crashed"
             /\ task_pc[r] = "failed" =>
                    /\ InTracker(script_id[r])
                    /\ generation_tasks[script_id[r]] = ErrorRecord)
    /\ [][\A r \in Requests :
             /\ (task_pc[r] = "generate" /\ task_pc'[r] \notin {"generate", "sleep"})
                    => /\ task_pc'[r] = "failed"
                       /\ generation_tasks'[script_id[r]] = ErrorRecord
             /\ \A found \in BOOLEAN :
                    (get_script_status(script_id[r], found)
                        /\ task_pc[r] = "failed") =>
                            /\ response'.code = 200
                            /\ response'.body = ErrorRecord]_vars

\* the task of a job ended in the except clause and a lookup returned its
\* error record
C23_Witness ==
    /\ response.route = "get_script_status"
    /\ response.code = 200
    /\ response.body = ErrorRecord
    /\ \E r \in Requests :
          script_id[r] = response.id /\ task_pc[r] = "failed"

(***************************************************************************)
(* Properties of the broker handler (checked under SpecPipeline)            *)
(***************************************************************************)
\* C24: every call of handle_data_collected returns normally: whether the
\* request could not be built, the generation raised, the script was not
\* stored, sends failed or the publish raised, no call ends by raising.
C24_HandlerAlwaysReturns ==
    /\ [](hd.result # "raised")
    /\ [][(hd.pc # "idle" /\ hd'.pc = "idle") => hd'.result = "returned"]_vars

\* a call whose publish raised after a session was notified has returned
C24_Witness ==
    /\ hd = Ended("returned", "publish")
    /\ \E s \in Sessions : notified.received[s] = 1

\* C25: when the script of an event with a collection_id is generated and
\* stored, then by the time publish_script_generated is called every session
\* that has been subscribed to the collection_id and connected since before
\* the call has accepted exactly one notification, and no session accepts
\* more than one; notifications are only sent for a stored script, before the
\* publish.
C25_EverySubscriberNotifiedOnce ==
    /\ \A s \in Sessions : notified.received[s] <= 1
    /\ (hd.pc = "publish" /\ hd.inserted /\ hd.collection_id # NoKey) =>
           \A s \in notified.eligible : notified.received[s] = 1
    /\ bc.pc = "send" => hd.pc = "broadcast" /\ hd.inserted

\* C26: a call whose script was generated goes on to publish_script_generated
\* whatever the broadcast did: with no list for the collection_id, with sends
\* that raised, or without a broadcast at all; only a failed generation ends
\* the call before the publish, and the call returns after the publish.
C26_PublishesWhateverTheBroadcastDid ==
    [][/\ (hd.pc = "generate" /\ hd'.pc = "idle") => hd'.logged = "generation"
       /\ (hd.pc = "generate" /\ hd'.pc # "idle" /\ hd'.inserted
              /\ hd.collection_id # NoKey
              /\ hd.collection_id \notin DOMAIN collection_connections) =>
              /\ hd'.pc = "publish"
              /\ last_op' = Returned(ReturnValue(0), 0, 0, FALSE)
              /\ UNCHANGED <<active_connections, collection_connections>>
       /\ (hd.pc = "broadcast" /\ hd'.pc # "broadcast") => hd'.pc = "publish"
       /\ (hd.pc = "publish" /\ hd'.pc # "publish") =>
              hd' \in {Ended("returned", "none"), Ended("returned", "publish")}
      ]_vars

\* the script of an event was stored, no session is subscribed to its
\* collection_id, and the call stands in publish_script_generated
C26_Witness ==
    /\ hd.pc = "publish"
    /\ hd.inserted
    /\ hd.collection_id # NoKey
    /\ hd.collection_id \notin DOMAIN collection_connections
    /\ last_op = Returned(ReturnValue(0), 0, 0, FALSE)

\* C27: a run of the pipeline has its job in generation_tasks: while the
\* broker handler awaits generate_script some record is {in_progress, 0.1},
\* and once its script is generated (and the handler goes on to broadcast and
\* publish) some record is {completed, 1.0}; the same for the background
\* tasks of POST /scripts.
C27_RunsAreTracked ==
    /\ hd.pc = "generate" =>
           \E id \in DOMAIN generation_tasks :
               generation_tasks[id] = Record("in_progress", 1)
    /\ hd.pc \in {"broadcast", "publish"} =>
           \E id \in DOMAIN generation_tasks :
               generation_tasks[id] = Record("completed", 10)
    /\ \A r \in Requests :
           /\ task_pc[r] = "generate" =>
                  /\ InTracker(script_id[r])
                  /\ generation_tasks[script_id[r]] = Record("in_progress", 1)
           /\ (task_pc[r] = "sleep" /\ InTracker(script_id[r])) =>
                  generation_tasks[script_id[r]] = Record("completed", 10)

(***************************************************************************)
(* Properties of the gateway (checked under SpecGateway)                    *)
(***************************************************************************)
\* C28: a publish_script_generated call in which nothing raises returns and
\* has published the event once to every destination of its module; a call
\* in which an await raises ends by raising to its caller, and the
\* destinations published before the failure keep their message (no count
\* ever decreases).
C28_PublishToEveryDestination ==
    [][\A module \in Modules, failed_at \in 0..3 :
          publish_script_generated(module, failed_at) =>
              LET dest == Destinations(module) IN
              /\ gw'.last[2] = IF failed_at = 0 THEN "returned" ELSE "raised"
              /\ failed_at = 0 =>
                     \A i \in 1..Len(dest) :
                         published'[dest[i]] = published[dest[i]] + 1
              /\ \A d \in AllDestinations : published'[d] >= published[d]
              /\ \A i \in 1..Len(dest) :
                     (failed_at # 0 /\ i + 1 < failed_at) =>
                         published'[dest[i]] = published[dest[i]] + 1]_vars

\* a publish of app/message_broker.py raised at its second destination, the
\* first keeps the message
C28_Witness ==
    /\ gw.last = <<"publish_script_generated", "raised">>
    /\ published["script_voice"] = 1
    /\ published["script_image"] = 0
    /\ gw.connection = "open"

\* C29: no close() call raises, whether it comes before any connect(), after
\* one, or after an earlier close(); after a close() the gateway holds no
\* open connection and its consumer task receives nothing: messages are
\* received only over a connection that is open.
C29_CloseIsSafe ==
    /\ [](/\ gw.last # <<"close", "raised">>
          /\ gw.last[1] = "close" =>
                 /\ gw.connection \in {"None", "closed"}
                 /\ ~Consuming)
    /\ [][delivered' # delivered => Consuming]_vars

\* close() was called again on a gateway that had consumed a message and
\* was closed already; its consumer task has ended
C29_Witness ==
    /\ gw.last = <<"close", "returned">>
    /\ gw.closed = "again"
    /\ gw.connection = "closed"
    /\ gw.task = "ended"
    /\ delivered >= 1

\* C30: once an I/O failure happened while the gateway was connected (the
\* transport went down, or a publish raised), the gateway holds no
\* connection, channel or queue and consumes nothing until connect() returns
\* again.
C30_FailureReturnsToDisconnected ==
    gw.failed =>
        /\ gw.connection = "None"
        /\ gw.channel = "None"
        /\ gw.queue = "None"
        /\ ~Consuming

(***************************************************************************)
(* Further properties of the job tracker                                    *)
(***************************************************************************)
\* C34 (checked under SpecJobsCancel): after a task was cancelled its job's
\* record is not in_progress: it is the error record, or what it was before
\* the task ran.
C34_CancelledNotStuck ==
    \A r \in Requests :
        task_pc[r] = "cancelled" =>
            ~(/\ InTracker(script_id[r])
              /\ generation_tasks[script_id[r]].status = "in_progress")

\* C36: a job whose record says completed has its document in the
\* repository.
C36_CompletedIsStored ==
    \A id \in JobIds :
        (InTracker(id) /\ generation_tasks[id].status = "completed") =>
            id \in repository

\* C38: every record in generation_tasks, every record ever written and every
\* record a lookup returned is one of the five whole snapshots; the error
\* entry is there exactly when the status is error.
Snapshots == {Record("queued", 0), Record("in_progress", 1),
              Record("finalizing", 9), Record("completed", 10), ErrorRecord}

C38_RecordsAreWholeSnapshots ==
    /\ \A id \in DOMAIN generation_tasks :
           /\ generation_tasks[id] \in Snapshots
           /\ generation_tasks[id].error <=> generation_tasks[id].status = "error"
    /\ \A id \in JobIds : \A i \in 1..Len(transitions[id]) :
           transitions[id][i] \in Snapshots
    /\ response.source = "generation_tasks" => response.body \in Snapshots

\* two jobs with records of different transitions, one of them read by a
\* lookup while its generation is in flight
C38_Witness ==
    /\ response.route = "get_script_status"
    /\ response.body = Record("in_progress", 1)
    /\ \E id \in DOMAIN generation_tasks : generation_tasks[id] = ErrorRecord
    /\ \E r \in Requests :
          /\ script_id[r] = response.id
          /\ task_pc[r] = "generate"
          /\ generation_tasks[script_id[r]] = Record("in_progress", 1)

\* C37 (checked under SpecPipeline): the broker handler calls
\* publish_script_generated only for a script that insert_one stored.
C37_PublishOnlyIfStored ==
    hd.pc = "publish" => hd.inserted

(***************************************************************************)
(* Further properties of send_to_collection                                 *)
(***************************************************************************)
\* C35 (checked under SpecBroadcast): while send_to_collection is in its
\* delivery loop it removes no session: a step of the call that leaves it
\* suspended in a send_json changes neither active_connections nor a group's
\* list, and no step of the call unregisters a session that is not in its
\* `disconnected` list. When the call has returned, every session it
\* collected is in neither active_connections nor any group's list, and no
\* group is left with an empty list.
StepOfSendToCollection == last_op'.op \in {"send_json", "send_to_collection"}

C35_CollectedThenRemoved ==
    /\ [][StepOfSendToCollection =>
             /\ bc'.pc = "send" =>
                    UNCHANGED <<active_connections, collection_connections>>
             /\ \A ws \in Sessions :
                    (Registered(ws) /\ ~Registered(ws)') =>
                        ws \in bh'.collected]_vars
    /\ []((bc.pc = "idle" /\ last_op.op = "send_to_collection") =>
              /\ \A ws \in bh.collected :
                    /\ ~InActive(active_connections, ws)
                    /\ \A k \in DOMAIN collection_connections :
                           ~Contains(collection_connections[k], ws)
              /\ \A k \in DOMAIN collection_connections :
                     collection_connections[k] # <<>>)

\* a call returned that collected both sessions, one because its send_json
\* raised and one because it was not CONNECTED; the clean-up removed both
\* and deleted the group they were alone in
C35_Witness ==
    /\ bc.pc = "idle" /\ last_op.op = "send_to_collection"
    /\ bh.collected = Sessions
    /\ \E ws \in bh.pruned : bh.sent[ws] = 1
    /\ \E ws \in bh.pruned : bh.sent[ws] = 0
    /\ collection_connections = EmptyDict
    /\ \A ws \in Sessions : ~InActive(active_connections, ws)

(***************************************************************************)
(* Further properties of the broker gateway                                 *)
(***************************************************************************)
\* C40 (checked under SpecGatewayReconnect): when close() has returned, no
\* connection that a connect() of this gateway opened is still open: neither
\* the one self.connection holds nor one an earlier connect() opened.
C40_CloseClosesEveryConnection ==
    gw.last = <<"close", "returned">> =>
        /\ gw.connection \notin {"open", "lost"}
        /\ gw.leaked = 0

(***************************************************************************)
(* Properties of the session handlers (checked under SpecSessions)          *)
(***************************************************************************)
\* C31: when the handler of a session has ended, however it ended (the peer
\* disconnected, an await raised, a send failed, the task was cancelled, or
\* /direct-ws returned for want of a collection_id), the session is not in
\* active_connections and in no group's list, in that state and ever after.
C31_EndedHandlerIsUnregistered ==
    \A ws \in Sessions :
        sh[ws].pc = "ended" =>
            /\ ~InActive(active_connections, ws)
            /\ \A k \in DOMAIN collection_connections :
                   ~Contains(collection_connections[k], ws)

\* both handlers have ended, one cancelled and one by a failed send or
\* await, both after their sessions were sent the acknowledgement; the
\* disconnect of the last one found its session registered
C31_Witness ==
    /\ \A ws \in Sessions :
          sh[ws].pc = "ended" /\ first_frame[ws] = "connection_established"
    /\ \E ws \in Sessions : sh[ws].how = "cancelled"
    /\ \E ws \in Sessions : sh[ws].how = "error"
    /\ last_op.op = "disconnect" /\ last_op.known

\* C32: the first send_json called on a session is the one of the
\* connection_established frame: no script_generated, echo, error or ping
\* frame goes before it, whatever send_to_collection does meanwhile.
C32_AcknowledgementFirst ==
    \A ws \in Sessions :
        first_frame[ws] \in {"none", "connection_established"}

\* a /direct-ws session is registered and its acknowledgement is still in
\* flight while send_to_collection sends the notification to it
C32_Witness ==
    \E ws \in Sessions :
        /\ sh[ws].route = "direct" /\ sh[ws].pc = "ack"
        /\ bc.pc = "send" /\ bc.connection = ws
        /\ first_frame[ws] = "connection_established"

\* C33: on /ws a text frame that is not JSON is answered with the error
\* frame: receiving it changes neither client_state nor the registry, and
\* close() is not called; when the send of the error frame is over the
\* handler awaits receive_text again with the registry as it was, unless
\* that send raised or the task was cancelled.
RegistryUntouched ==
    UNCHANGED <<active_connections, collection_connections, client_state>>

LiveDirect(k) ==
    {ws \in Sessions :
        /\ sh[ws].route = "direct" /\ sh[ws].key = k
        /\ sh[ws].pc \in {"ack", "receive", "reply"}
        /\ ~sh[ws].closed
        /\ client_state[ws] = "CONNECTED"
        /\ k \in DOMAIN collection_connections
        /\ Contains(collection_connections[k], ws)}

C39_OneLiveSessionPerSlot ==
    \A k \in Keys : Cardinality(LiveDirect(k)) <= 1

====
